---- MODULE Spec2Model ----
(***************************************************************************)
(* The two-level scan fan-out of awsspectre: MultiRegionScanner.ScanAll    *)
(* runs one goroutine per region in an errgroup limited to s.concurrency,  *)
(* and each region's scanRegion runs one goroutine per resource scanner in *)
(* an errgroup limited to 10.  Every goroutine merges its contribution     *)
(* into its parent's ScanResult under the parent's mutex.                  *)
(*                                                                         *)
(* Granularity.  A goroutine is cut at its blocking points: the admission  *)
(* by g.Go (the semaphore), the remote call (Scan), the acquisition of the *)
(* mutex, and g.Wait.  The return of the remote call and the acquisition   *)
(* of the mutex that follows it are one step: between them the goroutine   *)
(* touches nothing shared.  The critical section (appends, counter,        *)
(* Unlock, return nil, release of the semaphore slot) is one step, taken   *)
(* while the mutex is visibly held.                                        *)
(*                                                                         *)
(* errgroup (golang.org/x/sync) is a library: g.Go blocks the caller while *)
(* `limit` tasks are active, g.Wait blocks until every started task has    *)
(* returned and yields the first non-nil error a task returned.            *)
(***************************************************************************)
EXTENDS Integers, Sequences, FiniteSets, Bags, TLC

VARIABLES
    regions,      \* s.regions: the region names of this run
    scanners,     \* the resource types buildScanners yields, in its order
    concurrency,  \* s.concurrency, as NewMultiRegionScanner left it
    faults,       \* whether a remote call of this run may fail
    inventory,    \* per scanner: what the account holds (resources, findings)
    cancelled,    \* the run's context has been cancelled (or has timed out)
    saPc,         \* ScanAll's own goroutine: "loop" | "returned"
    gNext,        \* ScanAll's for loop: the next region to hand to g.Go
    rpc,          \* per region goroutine: "pending" | "running" | "cs" | "done"
    sNext,        \* per region, scanRegion's for loop: the next scanner for g.Go
    spc,          \* per region and scanner goroutine: "pending"|"running"|"cs"|"done"
    scanRet,      \* per region and scanner: what Scan returned ("none" before)
    result,       \* per region: scanRegion's accumulator
    muInner,      \* per region: the holder of scanRegion's mu (0: free)
    gerrInner,    \* per region: the error of scanRegion's errgroup
    regErr,       \* per region: the error scanRegion returned ("none" before)
    combined,     \* ScanAll's accumulator
    muOuter,      \* the holder of ScanAll's mu (0: free)
    gerrOuter,    \* the error of ScanAll's errgroup
    ret,          \* what ScanAll returned
    configured,   \* the concurrency argument NewMultiRegionScanner was given
    \* MetricsFetcher.fetchMetric, one call of it:
    ids,          \* the resource identifiers to fetch the metric of
    stat,         \* "Average" (FetchAverage) or "Sum" (FetchSum)
    lookbackDays, \* the length of the time window, in days
    client,       \* f.client: "mock", or "nil" when the fetcher has none
    clock,        \* the wall clock time.Now() reads, in hours
    fPc,          \* "idle" | "called" | "loop" | "returned" | "panicked"
    now,          \* the local `now` (0 before it is assigned)
    startTime,    \* the local `startTime` (0 before it is assigned)
    batches,      \* the local `batches`
    batchIdx,     \* the for loop: the next batch, counted from 1
    results,      \* the local `results`: resource identifier -> value
    calls,        \* the GetMetricData inputs sent so far, in order
    responses,    \* what GetMetricData returned to each of them
    fRet,         \* what fetchMetric returned
    \* ExcludeConfig.ShouldExclude, one call of it:
    exclude,      \* the receiver e
    resourceID,   \* the argument resourceID
    tags,         \* the argument tags (isNil: a nil map)
    exPc,         \* "idle" | "called" | "returned"
    excluded,     \* the value ShouldExclude returned
    \* ResourceScanner.Scan, one call of the Scan of one scanner:
    sType,        \* s.Type() of the scanner
    scanCfg,      \* the argument cfg (its Exclude and NATGWLowTrafficGB)
    listOut,      \* what the listing call of the scanner answers
    scPc,         \* "idle" | "called" | "fetch" | "returned"
    kept,         \* names / ids / runningIDs: the identifiers to fetch for
    found,        \* result.Findings so far
    fetched,      \* the metric fetches made so far and their outcomes
    scanOut,      \* what Scan returned: result and err
    \* MultiRegionScanner.progressFn and the calls made of it:
    progressFn,   \* the callback SetProgressFn installed, or Nil
    notified,     \* how many times the callback has been called
    \* The scan command, runScan:
    fileCfg,      \* cfg, the Config loaded from .awsspectre.yaml
    cmdPc,        \* "idle" | "loaded" | "scanning"
    \* analyzer.Analyze, one call:
    scanned,      \* the argument result
    minMonthlyCost, \* cfg.MinMonthlyCost of the AnalyzerConfig
    anPc,         \* "idle" | "called" | "returned"
    analysis      \* the AnalysisResult returned

\* The variables of the scan fan-out.
scanVars == <<regions, scanners, concurrency, faults, inventory, cancelled, saPc,
              gNext, rpc, sNext, spc, scanRet, result, muInner, gerrInner,
              regErr, combined, muOuter, gerrOuter, ret, configured,
              progressFn, notified>>

\* The variables of a metric fetch.
fetchVars == <<ids, stat, lookbackDays, client, clock, fPc, now, startTime,
               batches, batchIdx, results, calls, responses, fRet>>

\* The variables of a ShouldExclude call.
excludeVars == <<exclude, resourceID, tags, exPc, excluded>>

\* The variables of a Scan call.
unitVars == <<sType, scanCfg, listOut, scPc, kept, found, fetched, scanOut>>

\* The variables of the scan command and of its Analyze call.
cmdVars == <<fileCfg, cmdPc, scanned, minMonthlyCost, anPc, analysis>>

vars == <<scanVars, fetchVars, excludeVars, unitVars, cmdVars>>

(***************************************************************************)
(* Bounds of the model.                                                    *)
(***************************************************************************)
\* The most scanner invocations (regions x scanners per region) of a small run.
MaxUnits == 4
\* The most findings one Scan returns.
MaxFindings == 2
\* How many units more than a pool's limit the limit-binding runs queue.
Extra == 1
\* The most identifiers of a short list given to a metric fetch.
MaxIds == 3
\* The most full batches of a long list given to a metric fetch.
MaxFull == 2
\* The most results in one response to a short list.
MaxResults == 2
\* How far the clock advances while a metric fetch runs.
MaxTicks == 1
\* The resources a listing describes: at most MaxListed.
MaxListed == 2
\* The findings of an analysed scan result: at most MaxAnalyzed.
MaxAnalyzed == 2

(***************************************************************************)
(* Program constants.                                                      *)
(***************************************************************************)
\* NewMultiRegionScanner: concurrency = 4 when the argument is <= 0.
DefaultConcurrency == 4
\* scanRegion: g.SetLimit(10).
InnerLimit == 10
\* runScan: aws.NewMultiRegionScanner(client, regions, 4, scanCfg).
CliConcurrency == 4

Nil == "nil"
None == "none"

\* Region names a run may be given.
RegionNames ==
    <<"us-east-1", "eu-west-1", "us-west-2", "ap-south-1", "eu-north-1",
      "sa-east-1", "ca-central-1", "ap-northeast-1">>

\* The scanners buildScanners constructs, in its order (by Type()).
BuiltScanners ==
    <<"ec2", "ebs", "eip", "snapshot", "security_group", "alb",
      "nat_gateway", "rds", "lambda">>

\* The scanner set the repository's test expects of buildScanners.
TestedScanners == BuiltScanners \o <<"kinesis", "firehose", "sqs", "sns">>

\* The zero value of ScanResult.
EmptyResult ==
    [Findings |-> <<>>, Errors |-> <<>>, ResourcesScanned |-> 0,
     RegionsScanned |-> 0]

Regs == 1..Len(regions)
Scs == 1..Len(scanners)

(***************************************************************************)
(* NewMultiRegionScanner                                                   *)
(***************************************************************************)
\* A constructor that replaces only a zero argument by the default.
NewMultiRegionScannerZeroOnly(c) == IF c = 0 THEN DefaultConcurrency ELSE c

\* if concurrency <= 0 { concurrency = 4 }
NewMultiRegionScanner(c) == IF c <= 0 THEN DefaultConcurrency ELSE c

(***************************************************************************)
(* ResourceScanner.Scan, by its contract: a result or an error.            *)
(***************************************************************************)
\* The findings a successful Scan of scanner j in region i returns.
ScanFindings(i, j) ==
    [k \in 1..inventory[j].findings |->
        [Region |-> regions[i], ResourceType |-> scanners[j], ResourceID |-> k]]

\* The ScanResult a successful Scan returns.
ScanOK(i, j) ==
    [EmptyResult EXCEPT !.Findings = ScanFindings(i, j),
                        !.ResourcesScanned = inventory[j].resources]

\* What a Scan call may return now: "ok", or the cause of its error.
Outcomes ==
    {"ok"} \cup (IF faults THEN {"AccessDenied"} ELSE {})
           \cup (IF cancelled THEN {"context canceled"} ELSE {})

(***************************************************************************)
(* Formatting of the recorded errors.                                      *)
(***************************************************************************)
\* fmt.Sprintf("%s/%s: %v", region, scanner.Type(), err)
FmtScannerErr(region, type, cause) == region \o "/" \o type \o ": " \o cause

\* fmt.Sprintf("%s: %v", region, err)
FmtRegionErr(region, cause) == region \o ": " \o cause

(***************************************************************************)
(* errgroup and sync.Mutex as the two functions use them.                  *)
(***************************************************************************)
\* The first non-nil error a task returned.
GroupErr(err, taskRet) == IF err = Nil THEN taskRet ELSE err

\* A Lock that does not wait for the holder.
MuFreeAlways(holder) == TRUE

\* mu.Lock() returns only when nobody holds mu.
MuFree(holder) == holder = 0

\* A critical section that returns without mu.Unlock().
MuUnlockMissing(holder) == holder

\* mu.Unlock().
MuUnlock(holder) == 0

\* The regions whose goroutine holds a slot of ScanAll's errgroup.
OuterActive == {i \in Regs : rpc[i] \in {"running", "cs"}}

\* The scanners of region i whose goroutine holds a slot of its errgroup.
InnerActive(i) == {j \in Scs : spc[i][j] \in {"running", "cs"}}

\* ScanAll without its g.SetLimit.
RegionAdmissibleUnlimited == TRUE

\* g.SetLimit(s.concurrency); g.Go(...) admits a region below the limit.
RegionAdmissible == Cardinality(OuterActive) < concurrency

\* scanRegion without its g.SetLimit.
ScannerAdmissibleUnlimited(i) == TRUE

\* g.SetLimit(10); g.Go(...) admits a scanner below the limit.
ScannerAdmissible(i) == Cardinality(InnerActive(i)) < InnerLimit

\* scanRegion returning after its loop without g.Wait().
InnerWaitSkipped(i) == sNext[i] > Len(scanners)

\* scanRegion's g.Wait(): the loop is over and every scanner task returned.
InnerWaitDone(i) ==
    sNext[i] > Len(scanners) /\ \A j \in Scs : spc[i][j] = "done"

\* ScanAll's g.Wait(): the loop is over and every region task returned.
OuterWaitDone == gNext > Len(regions) /\ \A i \in Regs : rpc[i] = "done"

(***************************************************************************)
(* The two merges, each the body of a critical section.                    *)
(***************************************************************************)
\* MergeScanner with the counter assigned ("=") instead of added to ("+=").
MergeScannerAssigns(res, i, j, out) ==
    IF out # "ok"
    THEN [res EXCEPT !.Errors =
              Append(@, FmtScannerErr(regions[i], scanners[j], out))]
    ELSE [res EXCEPT !.Findings = @ \o ScanOK(i, j).Findings,
                     !.ResourcesScanned = ScanOK(i, j).ResourcesScanned]

\* MergeScanner with the findings put in front of those already merged.
MergeScannerPrepends(res, i, j, out) ==
    IF out # "ok"
    THEN [res EXCEPT !.Errors =
              Append(@, FmtScannerErr(regions[i], scanners[j], out))]
    ELSE [res EXCEPT !.Findings = ScanOK(i, j).Findings \o @,
                     !.ResourcesScanned = @ + ScanOK(i, j).ResourcesScanned]

\* scanRegion's task body after Scan returned `out` for scanner j of region i.
MergeScanner(res, i, j, out) ==
    IF out # "ok"
    THEN [res EXCEPT !.Errors =
              Append(@, FmtScannerErr(regions[i], scanners[j], out))]
    ELSE [res EXCEPT !.Findings = @ \o ScanOK(i, j).Findings,
                     !.ResourcesScanned = @ + ScanOK(i, j).ResourcesScanned]

\* A task that hands the error of Scan to its errgroup ("return err").
ScannerTaskReturnsErr(out) == IF out = "ok" THEN Nil ELSE out

\* What scanRegion's task returns to its errgroup.
ScannerTaskReturn(out) == Nil

\* MergeRegion with the findings assigned instead of appended.
MergeRegionOverwrites(comb, i, res, err) ==
    IF err # Nil
    THEN [comb EXCEPT !.Errors = Append(@, FmtRegionErr(regions[i], err))]
    ELSE [comb EXCEPT !.Findings = res.Findings,
                      !.Errors = @ \o res.Errors,
                      !.ResourcesScanned = @ + res.ResourcesScanned]

\* MergeRegion counting the region it merges in RegionsScanned.
MergeRegionCounts(comb, i, res, err) ==
    IF err # Nil
    THEN [comb EXCEPT !.Errors = Append(@, FmtRegionErr(regions[i], err))]
    ELSE [comb EXCEPT !.Findings = @ \o res.Findings,
                      !.Errors = @ \o res.Errors,
                      !.ResourcesScanned = @ + res.ResourcesScanned,
                      !.RegionsScanned = @ + 1]

\* ScanAll's task body after scanRegion returned (res, err) for region i.
MergeRegion(comb, i, res, err) ==
    IF err # Nil
    THEN [comb EXCEPT !.Errors = Append(@, FmtRegionErr(regions[i], err))]
    ELSE [comb EXCEPT !.Findings = @ \o res.Findings,
                      !.Errors = @ \o res.Errors,
                      !.ResourcesScanned = @ + res.ResourcesScanned]

\* What ScanAll's task returns to its errgroup.
RegionTaskReturn(err) == Nil

(***************************************************************************)
(* MetricsFetcher: the constants and the pure parts of fetchMetric.        *)
(***************************************************************************)
\* const maxMetricDataQueries = 500: the most queries of one GetMetricData.
maxMetricDataQueries == 500
\* 24 * time.Hour: the length of a day on the clock, which counts hours.
HoursPerDay == 24

\* The namespace and metric name of the modelled call.
Namespace == "AWS/EC2"
MetricName == "CPUUtilization"

\* The two statistics: FetchAverage and FetchSum pass them to fetchMetric.
Stats == {"Average", "Sum"}

\* A Go string as the sequence of its characters; a *string may be nil.
Str(chars) == [nil |-> FALSE, s |-> chars]
NilStr == [nil |-> TRUE, s |-> <<>>]

DigitChars == <<"0", "1", "2", "3", "4", "5", "6", "7", "8", "9">>
IsDigit(ch) == \E d \in DOMAIN DigitChars : DigitChars[d] = ch
DigitVal(ch) == (CHOOSE d \in DOMAIN DigitChars : DigitChars[d] = ch) - 1

\* The decimal digits of n >= 0, as %d prints them.
RECURSIVE Itoa(_)
Itoa(n) ==
    IF n < 10 THEN <<DigitChars[n + 1]>>
    ELSE Itoa(n \div 10) \o <<DigitChars[(n % 10) + 1]>>

\* fmt.Sprintf("m%d", i) for i >= 0.
Sprintf(i) == <<"m">> \o Itoa(i)

\* The longest run of digits of s that starts at position k.
RECURSIVE DigitRun(_, _)
DigitRun(s, k) ==
    IF k > Len(s) \/ ~IsDigit(s[k]) THEN <<>>
    ELSE <<s[k]>> \o DigitRun(s, k + 1)

\* The number a sequence of digits denotes.
RECURSIVE Atoi(_)
Atoi(ds) ==
    IF ds = <<>> THEN 0
    ELSE 10 * Atoi(SubSeq(ds, 1, Len(ds) - 1)) + DigitVal(ds[Len(ds)])

\* fmt.Sscanf(s, "m%d", &idx): the literal "m", an optional sign, at least
\* one digit; what follows the digits is left unread.  ok is "err == nil".
Sscanf(s) ==
    IF Len(s) = 0 \/ s[1] # "m" THEN [ok |-> FALSE, idx |-> 0]
    ELSE LET signed == Len(s) >= 2 /\ s[2] \in {"+", "-"}
             ds == DigitRun(s, IF signed THEN 3 ELSE 2)
         IN  IF ds = <<>> THEN [ok |-> FALSE, idx |-> 0]
             ELSE [ok |-> TRUE,
                   idx |-> IF signed /\ s[2] = "-" THEN 0 - Atoi(ds)
                           ELSE Atoi(ds)]

Min(a, b) == IF a < b THEN a ELSE b

\* batchIDs whose loop stops before a batch that would not be full.
RECURSIVE batchFullLoop(_, _, _, _)
batchFullLoop(list, batchSize, i, acc) ==
    IF i + batchSize <= Len(list)
    THEN batchFullLoop(list, batchSize, i + batchSize,
                       Append(acc, SubSeq(list, i + 1, i + batchSize)))
    ELSE acc

batchIDsFullOnly(list, batchSize) ==
    batchFullLoop(list,
                  IF batchSize <= 0 THEN maxMetricDataQueries ELSE batchSize,
                  0, <<>>)

\* batchIDs: for i := 0; i < len(ids); i += batchSize { ... ids[i:end] }
RECURSIVE batchLoop(_, _, _, _)
batchLoop(list, batchSize, i, acc) ==
    IF i < Len(list)
    THEN batchLoop(list, batchSize, i + batchSize,
                   Append(acc, SubSeq(list, i + 1,
                                      Min(i + batchSize, Len(list)))))
    ELSE acc

batchIDs(list, batchSize) ==
    batchLoop(list,
              IF batchSize <= 0 THEN maxMetricDataQueries ELSE batchSize,
              0, <<>>)

\* The guard of fetchMetric never taken.
NoIDsIgnored(list) == FALSE

\* if len(ids) == 0
NoIDs(list) == Len(list) = 0

\* startTime := now.Add(-time.Duration(lookbackDays) * 24 * time.Hour)
StartTimeOf(t, days) == t - days * HoursPerDay

\* An EndTime read from the clock when the batch is sent.
EndTimeOfCall(t, clk) == clk

\* EndTime: awssdk.Time(now), the `now` fetchMetric read when it started.
EndTimeOf(t, clk) == t

\* The queries of one batch: query i (from 0) is labelled "m<i>" and asks
\* for the metric of the resource batch[i].
Queries(batch) ==
    [q \in 1..Len(batch) |-> [Id |-> Str(Sprintf(q - 1)), Value |-> batch[q]]]

\* A float64 as an exact quotient in lowest terms.  The samples of the model
\* are small integers, whose float64 sums are exact.
RECURSIVE GCD(_, _)
GCD(a, b) == IF b = 0 THEN a ELSE GCD(b, a % b)

Float(n, d) ==
    LET g == GCD(IF n < 0 THEN 0 - n ELSE n, d)
    IN  [num |-> n \div g, den |-> d \div g]

\* for _, v := range result.Values { total += v }
RECURSIVE Total(_)
Total(values) ==
    IF values = <<>> THEN 0
    ELSE Total(SubSeq(values, 1, Len(values) - 1)) + values[Len(values)]

\* An aggregation that never divides.
AggregateTotalOnly(st, values) == Float(Total(values), 1)

\* if stat == "Average" && len(result.Values) > 0 { total / len } else total
Aggregate(st, values) ==
    IF st = "Average" /\ Len(values) > 0
    THEN Float(Total(values), Len(values))
    ELSE Float(Total(values), 1)

\* An attribution to the batch position after the one the label names.
ResourceAtNext(batch, idx) == batch[((idx + 1) % Len(batch)) + 1]

\* batch[idx]
ResourceAt(batch, idx) == batch[idx + 1]

\* The body of the loop over out.MetricDataResults for one result r; acc is
\* the results map so far, or the panic an index below zero raises.
ProcessResult(acc, batch, st, r) ==
    IF r.Id.nil THEN acc
    ELSE LET p == Sscanf(r.Id.s)
         IN  IF ~p.ok \/ p.idx >= Len(batch) THEN acc
             ELSE IF Len(r.Values) = 0 THEN acc
             ELSE IF p.idx < 0 THEN [acc EXCEPT !.panic = TRUE]
             ELSE [acc EXCEPT
                     !.m = (ResourceAt(batch, p.idx) :> Aggregate(st, r.Values))
                           @@ @]

\* for _, result := range out.MetricDataResults { ... }
RECURSIVE ProcessResults(_, _, _, _)
ProcessResults(acc, batch, st, rs) ==
    IF rs = <<>> \/ acc.panic THEN acc
    ELSE ProcessResults(ProcessResult(acc, batch, st, Head(rs)), batch, st,
                        Tail(rs))

\* fmt.Errorf("get metric data (%s/%s): %w", namespace, metricName, err)
FmtFetchErr(namespace, metricName, cause) ==
    "get metric data (" \o namespace \o "/" \o metricName \o "): " \o cause

\* A failed fetch that hands back what the earlier batches yielded.
FetchFailedPartial(acc, cause) ==
    [isNil |-> FALSE, m |-> acc,
     err |-> FmtFetchErr(Namespace, MetricName, cause)]

\* return nil, fmt.Errorf(...)
FetchFailed(acc, cause) ==
    [isNil |-> TRUE, m |-> <<>>,
     err |-> FmtFetchErr(Namespace, MetricName, cause)]

(***************************************************************************)
(* GetMetricData, by its contract: an error, or results for some of the    *)
(* queries, in any order.  The responses of the model also hold results    *)
(* the request did not ask for.                                            *)
(***************************************************************************)
\* The sample lists a result may carry.
SampleLists == {<<>>, <<10, 20, 30>>, <<1, 2>>}

\* Result ids no query of a batch of n carries: none, not "m<index>", an
\* index below zero, an index past the batch.
RogueIds(n) ==
    {NilStr, Str(<<"x">>), Str(<<"m", "-", "1">>), Str(Sprintf(n))}

\* The results a response to a short list of identifiers is made of.
RichResults(batch) ==
    {[Id |-> id, Values |-> vs] :
        id \in {Str(Sprintf(q - 1)) : q \in 1..Len(batch)}
               \cup RogueIds(Len(batch)),
        vs \in SampleLists}

\* The results a response to a batch of a long list is made of: samples for
\* the first and for the last resource of the batch.
SparseResults(batch) ==
    {[Id |-> Str(Sprintf(q - 1)), Values |-> <<10, 20, 30>>] :
        q \in {1, Len(batch)}}

\* The sequences of at most n results of C, no id twice.
ResultLists(C, n) ==
    UNION {{rs \in [1..k -> C] :
               \A a, b \in 1..k : a # b => rs[a].Id # rs[b].Id} : k \in 0..n}

(***************************************************************************)
(* ExcludeConfig.ShouldExclude                                             *)
(***************************************************************************)
\* m[k] of a Go map: the zero value when k is not a key.
MapGet(m, k, zero) == IF k \in DOMAIN m THEN m[k] ELSE zero

\* A predicate that matches only a tag of the same value.
TagMatchesValueOnly(v, tagVal) == tagVal = v

\* if v == "" || tagVal == v
TagMatches(v, tagVal) == v = "" \/ tagVal = v

\* for k, v := range e.Tags { ... }: the keys in the order the range visits
\* them; true at the first predicate that matches.
RECURSIVE RangeTags(_, _, _)
RangeTags(preds, order, tagMap) ==
    IF order = <<>> THEN FALSE
    ELSE LET k == Head(order)
         IN  IF k \notin DOMAIN tagMap
             THEN RangeTags(preds, Tail(order), tagMap)
             ELSE IF TagMatches(preds[k], tagMap[k]) THEN TRUE
             ELSE RangeTags(preds, Tail(order), tagMap)

\* ShouldExclude, the range visiting e.Tags in `order`.
ShouldExclude(e, id, tgs, order) ==
    IF MapGet(e.ResourceIDs, id, FALSE) THEN TRUE
    ELSE IF tgs.isNil \/ Cardinality(DOMAIN e.Tags) = 0 THEN FALSE
    ELSE RangeTags(e.Tags, order, tgs.m)

\* The orders in which a range may visit the keys K of a map.
Orders(K) ==
    {o \in [1..Cardinality(K) -> K] :
        \A a, b \in 1..Cardinality(K) : a # b => o[a] # o[b]}

(***************************************************************************)
(* ResourceScanner.Scan of the EBS, Lambda, RDS, NAT gateway and EC2       *)
(* scanners.  Ages are in days; byte counts are in MiB.                    *)
(***************************************************************************)
\* scanCmd's flag --idle-days: the lookback of the scanners, 7 by default.
DefaultIdleDays == 7
\* The elements of a sequence.
Range(s) == {s[k] : k \in DOMAIN s}
\* A volume detached for fewer days is not reported.
detachedThresholdDays == 7
\* The defaults the scan command gives the thresholds of ScanConfig.
IdleCPUThreshold == 5
HighMemoryThreshold == 50
StoppedThresholdDays == 30
\* 30.0 / float64(cfg.IdleDays): a month of traffic.
DaysPerMonth == 30
\* bytesPerGiB and 1024 * 1024 * 1024, in MiB.
MiBPerGiB == 1024
\* The scale of a percentage.
Percent == 100

\* s.Type() of the modelled scanners.
ScannerTypes == {"ebs", "lambda", "rds", "nat_gateway", "ec2"}

\* rdsMemoryGiB: the instance classes of the lookup table that the model uses.
rdsMemoryGiB == [c \in {"db.t3.micro"} |-> 1]

\* pricing.RDSInstanceMemoryBytes, in MiB.
RDSInstanceMemoryBytes(class) ==
    IF class \in DOMAIN rdsMemoryGiB
    THEN [bytes |-> rdsMemoryGiB[class] * MiBPerGiB, known |-> TRUE]
    ELSE [bytes |-> 0, known |-> FALSE]

\* ec2TagsToMap / rdsTagsToMap: nil for a resource without tags.
TagsToMap(tagList) ==
    IF DOMAIN tagList = {} THEN [isNil |-> TRUE, m |-> <<>>]
    ELSE [isNil |-> FALSE, m |-> tagList]

\* The exclusion test of a scanner on a resource it listed: the EBS scanner
\* looks the identifier up in cfg.Exclude.ResourceIDs, the Lambda scanner calls
\* ShouldExclude with nil tags, the others call it with the tags of the
\* resource.
Skipped(type, e, res, order) ==
    CASE type = "ebs" -> MapGet(e.ResourceIDs, res.id, FALSE)
      [] type = "lambda" ->
            ShouldExclude(e, res.id, [isNil |-> TRUE, m |-> <<>>], order)
      [] OTHER -> ShouldExclude(e, res.id, TagsToMap(res.Tags), order)

\* Finding{ID: ..., ResourceType: ..., ResourceID: ...}
Finding(fid, type, id) == [ID |-> fid, ResourceType |-> type, ResourceID |-> id]

\* result.Findings = append(result.Findings, ...) over `list` in its order:
\* verdict[x] is the finding ID of x, or "" when the loop continues past x.
Flagged(list, verdict, type) ==
    LET hits == SelectSeq(list, LAMBDA x : verdict[x] # "")
    IN  [k \in 1..Len(hits) |-> Finding(verdict[hits[k]], type, hits[k])]

\* The identifiers of the listed resources, in order.
IdsOf(items) == [k \in 1..Len(items) |-> items[k].id]

\* The listed resource named id.
ItemOf(items, id) == items[CHOOSE k \in 1..Len(items) : items[k].id = id]

\* The loop of EBSScanner.Scan over one volume.
EBSVerdict(e, vol, order) ==
    IF Skipped("ebs", e, vol, order) THEN ""
    ELSE IF vol.Days < 0 THEN ""
    ELSE IF vol.Days < detachedThresholdDays THEN ""
    ELSE "DETACHED_EBS"

\* The first loop of EC2Scanner.Scan over one instance.
StoppedVerdict(e, inst, order) ==
    IF Skipped("ec2", e, inst, order) THEN ""
    ELSE IF inst.State = "stopped" /\ inst.Days >= 0
                                   /\ inst.Days >= StoppedThresholdDays
    THEN "STOPPED_EC2"
    ELSE ""

\* Whether the first loop of a scanner collects the resource for the metric
\* lookup.
Collected(type, e, res, order) ==
    /\ ~Skipped(type, e, res, order)
    /\ type = "rds" => res.State = "available"
    /\ type = "ec2" => res.State = "running"

\* The metrics a scanner fetches, in the order of its fetches.
MetricsOf(type) ==
    CASE type = "lambda" -> <<"Invocations">>
      [] type = "rds" ->
            <<"CPUUtilization", "DatabaseConnections", "FreeableMemory">>
      [] type = "nat_gateway" ->
            <<"BytesOutToDestination", "BytesInFromDestination">>
      [] type = "ec2" -> <<"CPUUtilization", "mem_used_percent">>
      [] OTHER -> <<>>

\* if invocations[name] > 0 { continue }
LambdaVerdict(name, invocations) ==
    IF MapGet(invocations, name, 0) > 0 THEN "" ELSE "IDLE_LAMBDA"

\* memPct >= cfg.HighMemoryThreshold, memPct = (1 - freeable/total) * 100.
MemoryHigh(freeableBytes, totalBytes) ==
    (totalBytes - freeableBytes) * Percent >= HighMemoryThreshold * totalBytes

\* The loop of RDSScanner.Scan over one instance.
RDSVerdict(inst, cpuMap, connMap, memMap) ==
    LET hasCPU == inst.id \in DOMAIN cpuMap
        totalConns == MapGet(connMap, inst.id, 0)
        isIdle == (hasCPU /\ cpuMap[inst.id] < IdleCPUThreshold)
                      \/ totalConns = 0
        total == RDSInstanceMemoryBytes(inst.Class)
    IN  IF ~isIdle THEN ""
        ELSE IF /\ inst.id \in DOMAIN memMap
                /\ total.known /\ total.bytes > 0
                /\ MemoryHigh(memMap[inst.id], total.bytes)
        THEN ""
        ELSE "IDLE_RDS"

\* The loop of NATGatewayScanner.Scan over one gateway:
\* monthlyGB = totalBytes * (30.0 / IdleDays) / bytesPerGiB.
NATVerdict(id, bytesOut, bytesIn, lowTrafficGB, idleDays) ==
    LET totalBytes == MapGet(bytesOut, id, 0) + MapGet(bytesIn, id, 0)
    IN  IF totalBytes = 0 THEN "IDLE_NAT_GATEWAY"
        ELSE IF /\ lowTrafficGB > 0
                /\ totalBytes * DaysPerMonth < lowTrafficGB * idleDays * MiBPerGiB
        THEN "LOW_TRAFFIC_NAT_GATEWAY"
        ELSE ""

\* The loop of EC2Scanner.Scan over one running instance.
EC2Verdict(id, cpuMap, memMap) ==
    IF id \notin DOMAIN cpuMap THEN ""
    ELSE IF cpuMap[id] >= IdleCPUThreshold THEN ""
    ELSE IF id \in DOMAIN memMap /\ memMap[id] >= HighMemoryThreshold THEN ""
    ELSE "IDLE_EC2"

\* The findings the last loop of a scanner appends, ms the metric maps in the
\* order of the fetches.
Emitted(type, c, items, list, ms) ==
    LET verdict == [x \in Range(list) |->
            CASE type = "lambda" -> LambdaVerdict(x, ms[1])
              [] type = "rds" ->
                    RDSVerdict(ItemOf(items, x), ms[1], ms[2], ms[3])
              [] type = "nat_gateway" ->
                    NATVerdict(x, ms[1], ms[2], c.NATGWLowTrafficGB,
                               DefaultIdleDays)
              [] type = "ec2" -> EC2Verdict(x, ms[1], ms[2])
              [] OTHER -> ""]
    IN  Flagged(list, verdict, type)

\* The outcome of a fetch as the scanner goes on with it: the fetched map, or
\* make(map[string]float64) after a failed fetch.
MapOf(fetch) == IF fetch.err # None THEN <<>> ELSE fetch.m

\* The metric maps of the fetches made.
MapsOf(fs) == [k \in 1..Len(fs) |-> MapOf(fs[k])]

\* What each scanner calls the resources it lists.
ListLabel(type) ==
    CASE type = "ebs" -> "EBS volumes"
      [] type = "lambda" -> "Lambda functions"
      [] type = "rds" -> "RDS instances"
      [] type = "nat_gateway" -> "NAT Gateways"
      [] OTHER -> "EC2 instances"

\* fmt.Errorf("list ...: %w", err)
FmtListErr(type, cause) == "list " \o ListLabel(type) \o ": " \o cause

(***************************************************************************)
(* The scan command: the configuration file and the ScanConfig built from  *)
(* it.  A string of the file is the sequence of its pieces, "=" a piece of *)
(* its own.                                                                *)
(***************************************************************************)
\* The string a sequence of pieces spells.
RECURSIVE Join(_)
Join(pieces) == IF pieces = <<>> THEN "" ELSE Head(pieces) \o Join(Tail(pieces))

\* strings.Cut(s, "="): the text before and after the first "=".
Cut(pieces) ==
    LET eqs == {k \in DOMAIN pieces : pieces[k] = "="}
    IN  IF eqs = {}
        THEN [before |-> Join(pieces), after |-> "", found |-> FALSE]
        ELSE LET k == CHOOSE x \in eqs : \A y \in eqs : x <= y
             IN  [before |-> Join(SubSeq(pieces, 1, k - 1)),
                  after |-> Join(SubSeq(pieces, k + 1, Len(pieces))),
                  found |-> TRUE]

\* The loop of Exclude.ParseTags: m[k] = v, or m[s] = "" without a "=".
RECURSIVE ParseTagsLoop(_, _)
ParseTagsLoop(tagList, acc) ==
    IF tagList = <<>> THEN acc
    ELSE LET c == Cut(Head(tagList))
         IN  ParseTagsLoop(Tail(tagList), (c.before :> c.after) @@ acc)

\* Exclude.ParseTags: nil (no key) for an empty list.
ParseTags(tagList) ==
    IF Len(tagList) = 0 THEN <<>> ELSE ParseTagsLoop(tagList, <<>>)

\* scanCfg := aws.ScanConfig{IdleDays: ..., StaleDays: ..., MinMonthlyCost:
\* ..., IdleCPUThreshold: ..., HighMemoryThreshold: ...,
\* StoppedThresholdDays: ...}: the fields the literal does not name, Exclude
\* and NATGWLowTrafficGB, are zero.
ScanConfigOf(c) ==
    [Exclude |-> [ResourceIDs |-> <<>>, Tags |-> <<>>], NATGWLowTrafficGB |-> 0]

(***************************************************************************)
(* analyzer.Analyze.  Costs are in cents.                                  *)
(***************************************************************************)
\* A filter that drops a finding whose cost is the minimum.
KeepsAbove(f, minCost) == f.EstimatedMonthlyWaste > minCost

\* if f.EstimatedMonthlyWaste >= cfg.MinMonthlyCost
Keeps(f, minCost) == f.EstimatedMonthlyWaste >= minCost

\* for _, f := range filtered { summary.BySeverity[...]++ }: the counts of
\* the keys, a map without a key for what does not occur.
RECURSIVE Tally(_, _)
Tally(keys, acc) ==
    IF keys = <<>> THEN acc
    ELSE Tally(Tail(keys), (Head(keys) :> (MapGet(acc, Head(keys), 0) + 1)) @@ acc)

\* summary.TotalMonthlyWaste += f.EstimatedMonthlyWaste
RECURSIVE TotalWaste(_)
TotalWaste(fs) ==
    IF fs = <<>> THEN 0 ELSE Head(fs).EstimatedMonthlyWaste + TotalWaste(Tail(fs))

\* Analyze(result, AnalyzerConfig{MinMonthlyCost: minCost})
Analyze(res, minCost) ==
    LET filtered == SelectSeq(res.Findings, LAMBDA f : Keeps(f, minCost))
    IN  [isNil |-> FALSE,
         Findings |-> filtered,
         Summary |->
            [TotalResourcesScanned |-> res.ResourcesScanned,
             TotalFindings |-> Len(filtered),
             TotalMonthlyWaste |-> TotalWaste(filtered),
             RegionsScanned |-> res.RegionsScanned,
             BySeverity |->
                Tally([k \in DOMAIN filtered |-> filtered[k].Severity], <<>>),
             ByResourceType |->
                Tally([k \in DOMAIN filtered |-> filtered[k].ResourceType],
                      <<>>)],
         Errors |-> res.Errors]

(***************************************************************************)
(* The parts of the program a specification leaves alone.                  *)
(***************************************************************************)
\* No fetchMetric call.
FetchIdle ==
    /\ ids = <<>>
    /\ stat = "Average"
    /\ lookbackDays = 0
    /\ client = Nil
    /\ clock = 0
    /\ fPc = "idle"
    /\ now = 0
    /\ startTime = 0
    /\ batches = <<>>
    /\ batchIdx = 1
    /\ results = <<>>
    /\ calls = <<>>
    /\ responses = <<>>
    /\ fRet = [isNil |-> TRUE, m |-> <<>>, err |-> None]

\* No ShouldExclude call.
ExcludeIdle ==
    /\ exclude = [ResourceIDs |-> <<>>, Tags |-> <<>>]
    /\ resourceID = ""
    /\ tags = [isNil |-> TRUE, m |-> <<>>]
    /\ exPc = "idle"
    /\ excluded = FALSE

\* No scan command and no Analyze call.
CmdIdle ==
    /\ fileCfg = [Exclude |-> [ResourceIDs |-> <<>>, Tags |-> <<>>]]
    /\ cmdPc = "idle"
    /\ scanned = EmptyResult
    /\ minMonthlyCost = 0
    /\ anPc = "idle"
    /\ analysis = [isNil |-> TRUE]

\* No Scan call.
UnitIdle ==
    /\ sType = ""
    /\ scanCfg = [Exclude |-> [ResourceIDs |-> <<>>, Tags |-> <<>>],
                  NATGWLowTrafficGB |-> 0]
    /\ listOut = [err |-> None, items |-> <<>>]
    /\ scPc = "idle"
    /\ kept = <<>>
    /\ found = <<>>
    /\ fetched = <<>>
    /\ scanOut = [isNil |-> TRUE, ResourcesScanned |-> 0, Findings |-> <<>>,
                  err |-> None]

(***************************************************************************)
(* Initial states: ScanAll has been called on a constructed scanner.       *)
(***************************************************************************)
\* What the account holds in the small runs: scanner j sees j resources.
MixedInventory(n) ==
    [j \in 1..n |-> [resources |-> j, findings |-> (j % MaxFindings) + 1]]

\* An account without waste: one resource per scanner, no finding.
CleanInventory(n) == [j \in 1..n |-> [resources |-> 1, findings |-> 0]]

InitRun(rs, ss, c, f, inv) ==
    /\ regions = rs
    /\ scanners = ss
    /\ configured = c
    /\ concurrency = NewMultiRegionScanner(c)
    /\ faults = f
    /\ inventory = inv
    /\ cancelled = FALSE
    /\ saPc = "loop"
    /\ gNext = 1
    /\ rpc = [i \in 1..Len(rs) |-> "pending"]
    /\ sNext = [i \in 1..Len(rs) |-> 1]
    /\ spc = [i \in 1..Len(rs) |-> [j \in 1..Len(ss) |-> "pending"]]
    /\ scanRet = [i \in 1..Len(rs) |-> [j \in 1..Len(ss) |-> None]]
    /\ result = [i \in 1..Len(rs) |-> EmptyResult]
    /\ muInner = [i \in 1..Len(rs) |-> 0]
    /\ gerrInner = [i \in 1..Len(rs) |-> Nil]
    /\ regErr = [i \in 1..Len(rs) |-> None]
    /\ combined = EmptyResult
    /\ muOuter = 0
    /\ gerrOuter = Nil
    /\ ret = [result |-> None, err |-> None]
    /\ notified = 0
    /\ FetchIdle
    /\ ExcludeIdle
    /\ UnitIdle
    /\ CmdIdle

\* The concurrency arguments the small runs are constructed with.
ConfiguredConcurrency == {-1, 0, 1, 2}

\* Small runs: n regions of m scanners each, at most MaxUnits scanner
\* invocations in all, any configured concurrency, remote calls may fail.
InitSmall ==
    \E n \in 0..MaxUnits, m \in 1..MaxUnits, c \in ConfiguredConcurrency :
        /\ n * m <= MaxUnits
        /\ progressFn = Nil
        /\ InitRun(SubSeq(RegionNames, 1, n), SubSeq(TestedScanners, 1, m),
                   c, TRUE, MixedInventory(m))

\* One region with more scanners than the inner limit, as the CLI runs it.
InitInner ==
    /\ progressFn = Nil
    /\ InitRun(SubSeq(RegionNames, 1, 1),
               SubSeq(TestedScanners, 1, InnerLimit + Extra),
               CliConcurrency, FALSE, CleanInventory(InnerLimit + Extra))

\* More regions than the default outer limit, one scanner each.
InitOuter ==
    /\ progressFn = Nil
    /\ InitRun(SubSeq(RegionNames, 1, DefaultConcurrency + Extra),
               SubSeq(TestedScanners, 1, 1), 0, FALSE, CleanInventory(1))

Init == InitSmall \/ InitInner \/ InitOuter

(***************************************************************************)
(* Actions.                                                                *)
(***************************************************************************)
\* ScanAll's loop: g.Go admits region i; its goroutine enters scanRegion.
ScanAllGo(i) ==
    /\ saPc = "loop"
    /\ i = gNext
    /\ i <= Len(regions)
    /\ RegionAdmissible
    /\ gNext' = gNext + 1
    /\ rpc' = [rpc EXCEPT ![i] = "running"]
    /\ UNCHANGED <<fetchVars, excludeVars, unitVars, cmdVars, configured,
                   progressFn, notified>>
    /\ UNCHANGED <<regions, scanners, concurrency, faults, inventory, cancelled,
                   saPc, sNext, spc, scanRet, result, muInner, gerrInner,
                   regErr, combined, muOuter, gerrOuter, ret>>

\* scanRegion's loop: g.Go admits scanner j; its goroutine calls Scan.
ScanRegionGo(i, j) ==
    /\ rpc[i] = "running"
    /\ j = sNext[i]
    /\ j <= Len(scanners)
    /\ ScannerAdmissible(i)
    /\ sNext' = [sNext EXCEPT ![i] = j + 1]
    /\ spc' = [spc EXCEPT ![i][j] = "running"]
    /\ UNCHANGED <<fetchVars, excludeVars, unitVars, cmdVars, configured,
                   progressFn, notified>>
    /\ UNCHANGED <<regions, scanners, concurrency, faults, inventory, cancelled,
                   saPc, gNext, rpc, scanRet, result, muInner, gerrInner,
                   regErr, combined, muOuter, gerrOuter, ret>>

\* ScanReturn reporting the finished scanner to the installed callback.
ScanReturnNotifies(i, j) ==
    /\ spc[i][j] = "running"
    /\ MuFree(muInner[i])
    /\ \E out \in Outcomes : scanRet' = [scanRet EXCEPT ![i][j] = out]
    /\ muInner' = [muInner EXCEPT ![i] = j]
    /\ spc' = [spc EXCEPT ![i][j] = "cs"]
    /\ notified' = IF progressFn = Nil THEN notified ELSE notified + 1
    /\ UNCHANGED <<fetchVars, excludeVars, unitVars, cmdVars, configured,
                   progressFn>>
    /\ UNCHANGED <<regions, scanners, concurrency, faults, inventory, cancelled,
                   saPc, gNext, rpc, sNext, result, gerrInner, regErr,
                   combined, muOuter, gerrOuter, ret>>

\* Scan of scanner j returns `out`; the goroutine locks scanRegion's mu.
ScanReturn(i, j) ==
    /\ spc[i][j] = "running"
    /\ MuFree(muInner[i])
    /\ \E out \in Outcomes : scanRet' = [scanRet EXCEPT ![i][j] = out]
    /\ muInner' = [muInner EXCEPT ![i] = j]
    /\ spc' = [spc EXCEPT ![i][j] = "cs"]
    /\ UNCHANGED <<fetchVars, excludeVars, unitVars, cmdVars, configured,
                   progressFn, notified>>
    /\ UNCHANGED <<regions, scanners, concurrency, faults, inventory, cancelled,
                   saPc, gNext, rpc, sNext, result, gerrInner, regErr,
                   combined, muOuter, gerrOuter, ret>>

\* The critical section of scanner j: merge, Unlock, return nil.
ScannerMerge(i, j) ==
    /\ spc[i][j] = "cs"
    /\ result' = [result EXCEPT ![i] = MergeScanner(@, i, j, scanRet[i][j])]
    /\ muInner' = [muInner EXCEPT ![i] = MuUnlock(@)]
    /\ gerrInner' = [gerrInner EXCEPT
                        ![i] = GroupErr(@, ScannerTaskReturn(scanRet[i][j]))]
    /\ spc' = [spc EXCEPT ![i][j] = "done"]
    /\ UNCHANGED <<fetchVars, excludeVars, unitVars, cmdVars, configured,
                   progressFn, notified>>
    /\ UNCHANGED <<regions, scanners, concurrency, faults, inventory, cancelled,
                   saPc, gNext, rpc, sNext, scanRet, regErr, combined, muOuter,
                   gerrOuter, ret>>

\* scanRegion's g.Wait() returns and scanRegion returns; the region's
\* goroutine locks ScanAll's mu.
ScanRegionReturn(i) ==
    /\ rpc[i] = "running"
    /\ InnerWaitDone(i)
    /\ MuFree(muOuter)
    /\ regErr' = [regErr EXCEPT ![i] = gerrInner[i]]
    /\ muOuter' = i
    /\ rpc' = [rpc EXCEPT ![i] = "cs"]
    /\ UNCHANGED <<fetchVars, excludeVars, unitVars, cmdVars, configured,
                   progressFn, notified>>
    /\ UNCHANGED <<regions, scanners, concurrency, faults, inventory, cancelled,
                   saPc, gNext, sNext, spc, scanRet, result, muInner, gerrInner,
                   combined, gerrOuter, ret>>

\* The critical section of region i: merge, Unlock, return nil.
RegionMerge(i) ==
    /\ rpc[i] = "cs"
    /\ combined' = MergeRegion(combined, i, result[i], regErr[i])
    /\ muOuter' = MuUnlock(muOuter)
    /\ gerrOuter' = GroupErr(gerrOuter, RegionTaskReturn(regErr[i]))
    /\ rpc' = [rpc EXCEPT ![i] = "done"]
    /\ UNCHANGED <<fetchVars, excludeVars, unitVars, cmdVars, configured,
                   progressFn, notified>>
    /\ UNCHANGED <<regions, scanners, concurrency, faults, inventory, cancelled,
                   saPc, gNext, sNext, spc, scanRet, result, muInner, gerrInner,
                   regErr, ret>>

\* A ScanAll that refuses a scanner without regions.
ScanAllReturnRejectsEmpty ==
    /\ saPc = "loop"
    /\ OuterWaitDone
    /\ IF gerrOuter # Nil \/ Len(regions) = 0
       THEN /\ ret' = [result |-> Nil, err |-> "no regions"]
            /\ UNCHANGED combined
       ELSE /\ combined' = [combined EXCEPT !.RegionsScanned = Len(regions)]
            /\ ret' = [result |-> "combined", err |-> Nil]
    /\ saPc' = "returned"
    /\ UNCHANGED <<fetchVars, excludeVars, unitVars, cmdVars, configured,
                   progressFn, notified>>
    /\ UNCHANGED <<regions, scanners, concurrency, faults, inventory, cancelled,
                   gNext, rpc, sNext, spc, scanRet, result, muInner, gerrInner,
                   regErr, muOuter, gerrOuter>>

\* ScanAll's g.Wait() returns; ScanAll sets RegionsScanned and returns.
ScanAllReturn ==
    /\ saPc = "loop"
    /\ OuterWaitDone
    /\ IF gerrOuter # Nil
       THEN /\ ret' = [result |-> Nil, err |-> gerrOuter]
            /\ UNCHANGED combined
       ELSE /\ combined' = [combined EXCEPT !.RegionsScanned = Len(regions)]
            /\ ret' = [result |-> "combined", err |-> Nil]
    /\ saPc' = "returned"
    /\ UNCHANGED <<fetchVars, excludeVars, unitVars, cmdVars, configured,
                   progressFn, notified>>
    /\ UNCHANGED <<regions, scanners, concurrency, faults, inventory, cancelled,
                   gNext, rpc, sNext, spc, scanRet, result, muInner, gerrInner,
                   regErr, muOuter, gerrOuter>>

\* runScan's context is cancelled or times out while ScanAll runs.
Cancel ==
    /\ saPc = "loop"
    /\ ~cancelled
    /\ cancelled' = TRUE
    /\ UNCHANGED <<fetchVars, excludeVars, unitVars, cmdVars, configured,
                   progressFn, notified>>
    /\ UNCHANGED <<regions, scanners, concurrency, faults, inventory, saPc,
                   gNext, rpc, sNext, spc, scanRet, result, muInner, gerrInner,
                   regErr, combined, muOuter, gerrOuter, ret>>

Next ==
    \/ \E i \in Regs : ScanAllGo(i)
    \/ \E i \in Regs, j \in Scs : ScanRegionGo(i, j)
    \/ \E i \in Regs, j \in Scs : ScanReturn(i, j)
    \/ \E i \in Regs, j \in Scs : ScannerMerge(i, j)
    \/ \E i \in Regs : ScanRegionReturn(i)
    \/ \E i \in Regs : RegionMerge(i)
    \/ ScanAllReturn

\* A run whose context is never cancelled.
Spec == Init /\ [][Next]_vars

\* The callbacks a caller may install: none, or one of two that differ in
\* what they do with a ScanProgress.
ProgressFns == {Nil, "print", "count"}

\* SetProgressFn: s.progressFn = fn.
SetProgressFn(fn) ==
    /\ progressFn' = fn
    /\ UNCHANGED <<fetchVars, excludeVars, unitVars, cmdVars, configured,
                   notified>>
    /\ UNCHANGED <<regions, scanners, concurrency, faults, inventory, cancelled,
                   saPc, gNext, rpc, sNext, spc, scanRet, result, muInner,
                   gerrInner, regErr, combined, muOuter, gerrOuter, ret>>

\* A small run of a scanner that was built without a callback.
InitProgress == InitSmall

NextProgress == Next \/ \E fn \in ProgressFns : SetProgressFn(fn)

\* ScanAll runs while the caller installs, replaces or removes the callback.
SpecProgress == InitProgress /\ [][NextProgress]_vars

\* A small run whose context may be cancelled, or time out, at any moment.
NextCancel == Next \/ Cancel

SpecCancel == InitSmall /\ [][NextCancel]_vars

\* A run in which the Go scheduler lets some goroutine that can take a step
\* take one, and a Scan call in flight returns.
LiveSpec == Init /\ [][Next]_vars /\ WF_vars(Next)

\* buildScanners(cfg, region): the scanners of a region, by Type().
buildScanners(region) == BuiltScanners

\* ScanAll has been called, as the CLI calls it, on one region of an account
\* without waste; scanRegion will run what buildScanners returns for it.
InitBuilt ==
    \E r \in 1..Len(RegionNames) :
        /\ progressFn = Nil
        /\ InitRun(<<RegionNames[r]>>, buildScanners(RegionNames[r]),
                   CliConcurrency, FALSE,
                   CleanInventory(Len(buildScanners(RegionNames[r]))))

SpecBuilt == InitBuilt /\ [][Next]_vars

(***************************************************************************)
(* One call of fetchMetric.  The function runs in its caller's goroutine   *)
(* and shares nothing: a step is the entry up to the loop, one iteration   *)
(* of the loop over the batches (the remote call and the handling of its   *)
(* response), or the return after the loop.                                *)
(***************************************************************************)
\* No ScanAll call.
ScanIdle ==
    /\ configured = 0
    /\ regions = <<>>
    /\ scanners = <<>>
    /\ concurrency = NewMultiRegionScanner(0)
    /\ faults = FALSE
    /\ inventory = <<>>
    /\ cancelled = FALSE
    /\ saPc = "idle"
    /\ gNext = 1
    /\ rpc = <<>>
    /\ sNext = <<>>
    /\ spc = <<>>
    /\ scanRet = <<>>
    /\ result = <<>>
    /\ muInner = <<>>
    /\ gerrInner = <<>>
    /\ regErr = <<>>
    /\ combined = EmptyResult
    /\ muOuter = 0
    /\ gerrOuter = Nil
    /\ ret = [result |-> None, err |-> None]
    /\ progressFn = Nil
    /\ notified = 0

\* The identifiers of a list of n resources.
ResourceIds(n) == [p \in 1..n |-> "i-" \o ToString(p)]


\* The lookback periods of the modelled calls, in days.
LookbackDays == {1, DefaultIdleDays}

\* fetchMetric has been called with n identifiers.
FetchCalled(n, st, days, cl) ==
    /\ ids = ResourceIds(n)
    /\ stat = st
    /\ lookbackDays = days
    /\ client = cl
    /\ clock = 0
    /\ fPc = "called"
    /\ now = 0
    /\ startTime = 0
    /\ batches = <<>>
    /\ batchIdx = 1
    /\ results = <<>>
    /\ calls = <<>>
    /\ responses = <<>>
    /\ fRet = [isNil |-> TRUE, m |-> <<>>, err |-> None]
    /\ ScanIdle
    /\ ExcludeIdle
    /\ UnitIdle
    /\ CmdIdle

\* Short lists: at most MaxIds identifiers, with or without a client.
InitFetchShort ==
    \E n \in 0..MaxIds, st \in Stats, days \in LookbackDays,
       cl \in {"mock", Nil} :
        FetchCalled(n, st, days, cl)

\* The lengths around a multiple of the batch size, up to MaxFull batches.
LongLengths ==
    {k * maxMetricDataQueries + d : k \in 1..MaxFull, d \in {-1, 0, 1}}

\* Long lists: one identifier less than, as many as, and one more than a
\* number of full batches, with the default lookback.
InitFetchLong ==
    \E n \in LongLengths, st \in Stats :
        FetchCalled(n, st, DefaultIdleDays, "mock")

InitFetch == InitFetchShort \/ InitFetchLong

\* What f.client.GetMetricData may return for a batch.
GetMetricData(batch) ==
    {[err |-> "throttling: rate exceeded", results |-> <<>>]}
    \cup {[err |-> Nil, results |-> rs] :
            rs \in ResultLists(IF Len(ids) <= MaxIds THEN RichResults(batch)
                               ELSE SparseResults(batch), MaxResults)}

\* The entry of fetchMetric: the guard, the window, the batches.
FetchEnter ==
    /\ fPc = "called"
    /\ IF NoIDs(ids)
       THEN /\ fRet' = [isNil |-> TRUE, m |-> <<>>, err |-> Nil]
            /\ fPc' = "returned"
            /\ UNCHANGED <<now, startTime, batches>>
       ELSE /\ now' = clock
            /\ startTime' = StartTimeOf(clock, lookbackDays)
            /\ batches' = batchIDs(ids, maxMetricDataQueries)
            /\ fPc' = "loop"
            /\ UNCHANGED fRet
    /\ UNCHANGED <<ids, stat, lookbackDays, client, clock, batchIdx, results,
                   calls, responses>>
    /\ UNCHANGED <<scanVars, excludeVars, unitVars, cmdVars>>

\* One iteration of the loop over the batches: the queries are built, the
\* remote call returns, its error ends the fetch or its results are stored.
\* A fetcher without a client panics at the call.
FetchBatch ==
    /\ fPc = "loop"
    /\ batchIdx <= Len(batches)
    /\ IF client = Nil
       THEN /\ fPc' = "panicked"
            /\ UNCHANGED <<batchIdx, results, calls, responses, fRet>>
       ELSE \E out \in GetMetricData(batches[batchIdx]) :
            /\ calls' = Append(calls,
                   [Queries |-> Queries(batches[batchIdx]),
                    StartTime |-> startTime,
                    EndTime |-> EndTimeOf(now, clock)])
            /\ responses' = Append(responses, out)
            /\ IF out.err # Nil
               THEN /\ fRet' = FetchFailed(results, out.err)
                    /\ fPc' = "returned"
                    /\ UNCHANGED <<batchIdx, results>>
               ELSE LET acc == ProcessResults([panic |-> FALSE, m |-> results],
                                              batches[batchIdx], stat,
                                              out.results)
                    IN  /\ results' = acc.m
                        /\ fPc' = IF acc.panic THEN "panicked" ELSE "loop"
                        /\ batchIdx' = IF acc.panic THEN batchIdx
                                       ELSE batchIdx + 1
                        /\ UNCHANGED fRet
    /\ UNCHANGED <<ids, stat, lookbackDays, client, clock, now, startTime,
                   batches>>
    /\ UNCHANGED <<scanVars, excludeVars, unitVars, cmdVars>>

\* The loop is over: return results, nil.
FetchReturn ==
    /\ fPc = "loop"
    /\ batchIdx > Len(batches)
    /\ fRet' = [isNil |-> FALSE, m |-> results, err |-> Nil]
    /\ fPc' = "returned"
    /\ UNCHANGED <<ids, stat, lookbackDays, client, clock, now, startTime,
                   batches, batchIdx, results, calls, responses>>
    /\ UNCHANGED <<scanVars, excludeVars, unitVars, cmdVars>>

\* Time passes while the fetch is in its loop: the clock advances between
\* the return of one remote call and the sending of the next.
Tick ==
    /\ fPc = "loop"
    /\ calls # <<>>
    /\ batchIdx <= Len(batches)
    /\ clock < MaxTicks
    /\ clock' = clock + 1
    /\ UNCHANGED <<ids, stat, lookbackDays, client, fPc, now, startTime,
                   batches, batchIdx, results, calls, responses, fRet>>
    /\ UNCHANGED <<scanVars, excludeVars, unitVars, cmdVars>>

NextFetch == FetchEnter \/ FetchBatch \/ FetchReturn \/ Tick

\* One call of FetchAverage or FetchSum.
SpecFetch == InitFetch /\ [][NextFetch]_vars

(***************************************************************************)
(* One call of ExcludeConfig.ShouldExclude.                                *)
(***************************************************************************)
\* The identifiers and the tag keys and values of the modelled calls.
ExcludeIds == {"i-123", "i-999"}
TagKeys == {"Environment", "temporary"}
PredicateValues == {"", "production"}
TagValues == {"", "production", "staging"}

\* The Go maps with keys among K and values among V.
Maps(K, V) == UNION {[S -> V] : S \in SUBSET K}

\* ShouldExclude has been called: any identifier set, any predicates, any
\* identifier, nil tags or any tag map.
InitExclude ==
    /\ \E idSet \in Maps(ExcludeIds, {TRUE}),
          preds \in Maps(TagKeys, PredicateValues) :
            exclude = [ResourceIDs |-> idSet, Tags |-> preds]
    /\ resourceID \in ExcludeIds
    /\ \/ tags = [isNil |-> TRUE, m |-> <<>>]
       \/ \E tagMap \in Maps(TagKeys, TagValues) :
            tags = [isNil |-> FALSE, m |-> tagMap]
    /\ exPc = "called"
    /\ excluded = FALSE
    /\ ScanIdle
    /\ FetchIdle
    /\ UnitIdle
    /\ CmdIdle

\* ShouldExclude runs and returns, its range visiting e.Tags in any order.
ShouldExcludeReturn ==
    /\ exPc = "called"
    /\ \E order \in Orders(DOMAIN exclude.Tags) :
          excluded' = ShouldExclude(exclude, resourceID, tags, order)
    /\ exPc' = "returned"
    /\ UNCHANGED <<exclude, resourceID, tags>>
    /\ UNCHANGED <<scanVars, fetchVars, unitVars, cmdVars>>

NextExclude == ShouldExcludeReturn

SpecExclude == InitExclude /\ [][NextExclude]_vars

(***************************************************************************)
(* One call of the Scan of a resource scanner: a step is the listing call  *)
(* with the loop that follows it, or one metric fetch with what follows    *)
(* it up to the next fetch or the return.                                  *)
(***************************************************************************)
\* The tags a listed resource may carry, and the exclusions of a ScanConfig.
ResourceTags == {<<>>, [k \in {"temporary"} |-> "yes"]}
Exclusions ==
    {[ResourceIDs |-> <<>>, Tags |-> <<>>],
     [ResourceIDs |-> [k \in {"r-1"} |-> TRUE], Tags |-> <<>>],
     [ResourceIDs |-> <<>>, Tags |-> [k \in {"temporary"} |-> ""]]}

\* What the listing of a scanner may say of one resource: the EBS listing
\* returns available volumes, the NAT gateway listing available gateways, the
\* EC2 listing running and stopped instances; a function configuration
\* carries no tags.  Days is the age of CreateTime / LaunchTime, -1 when the
\* time is nil.
Described(type) ==
    CASE type = "ebs" ->
            [Tags : ResourceTags, State : {"available"}, Days : {-1, 3, 30},
             Class : {""}]
      [] type = "lambda" ->
            [Tags : {<<>>}, State : {"Active"}, Days : {0}, Class : {""}]
      [] type = "rds" ->
            [Tags : ResourceTags, State : {"available", "stopped"},
             Days : {0}, Class : {"db.t3.micro", "db.z1d.unlisted"}]
      [] type = "nat_gateway" ->
            [Tags : ResourceTags, State : {"available"}, Days : {0},
             Class : {""}]
      [] OTHER ->
            [Tags : ResourceTags, State : {"running"}, Days : {40},
             Class : {"t3.micro"}]
            \cup [Tags : ResourceTags, State : {"stopped"}, Days : {-1, 40},
                  Class : {"t3.micro"}]

\* The listings of n resources a scanner may get: distinct identifiers.
Listings(type, n) ==
    {[k \in 1..n |->
        [id |-> "r-" \o ToString(k), Tags |-> d[k].Tags, State |-> d[k].State,
         Days |-> d[k].Days, Class |-> d[k].Class]] :
     d \in [1..n -> Described(type)]}

\* The values a metric may have for a resource (byte counts in MiB).
ValuesOf(metric) ==
    CASE metric = "CPUUtilization" -> {2, 50}
      [] metric = "mem_used_percent" -> {10, 90}
      [] metric = "DatabaseConnections" -> {0, 7}
      [] metric = "FreeableMemory" -> {100, 900}
      [] metric = "Invocations" -> {0, 3}
      [] OTHER -> {0, 200}

\* What FetchSum / FetchAverage may return for the identifiers of `list`: an
\* error, or a map with a value for any of them.
FetchOutcomes(metric, list) ==
    {[metric |-> metric, err |-> "throttling: rate exceeded", m |-> <<>>]}
    \cup {[metric |-> metric, err |-> None, m |-> mm] :
            mm \in Maps(Range(list), ValuesOf(metric))}

\* Scan has been called on a scanner of any type, with any exclusions, its
\* listing failing or describing up to MaxListed resources.
InitScanner ==
    /\ sType \in ScannerTypes
    /\ \E e \in Exclusions :
         \E gb \in (IF sType = "nat_gateway" THEN {0, 1} ELSE {0}) :
            scanCfg = [Exclude |-> e, NATGWLowTrafficGB |-> gb]
    /\ \/ listOut = [err |-> "AccessDenied", items |-> <<>>]
       \/ \E n \in 0..MaxListed : \E l \in Listings(sType, n) :
            listOut = [err |-> None, items |-> l]
    /\ scPc = "called"
    /\ kept = <<>>
    /\ found = <<>>
    /\ fetched = <<>>
    /\ scanOut = [isNil |-> TRUE, ResourcesScanned |-> 0, Findings |-> <<>>,
                  err |-> None]
    /\ ScanIdle
    /\ FetchIdle
    /\ ExcludeIdle
    /\ CmdIdle

\* return result, nil
Returned(items, findings) ==
    [isNil |-> FALSE, ResourcesScanned |-> Len(items), Findings |-> findings,
     err |-> None]

\* The listing call and the first loop: an error of the listing is returned;
\* otherwise the loop skips what is excluded, reports detached volumes and
\* stopped instances, and collects the identifiers for the metric lookup.
\* Scan returns here when there is nothing to look up.
ScanList ==
    /\ scPc = "called"
    /\ IF listOut.err # None
       THEN /\ scanOut' = [isNil |-> TRUE, ResourcesScanned |-> 0,
                           Findings |-> <<>>,
                           err |-> FmtListErr(sType, listOut.err)]
            /\ scPc' = "returned"
            /\ UNCHANGED <<kept, found>>
       ELSE \E order \in Orders(DOMAIN scanCfg.Exclude.Tags) :
            LET items == listOut.items
                e == scanCfg.Exclude
                verdict == [x \in Range(IdsOf(items)) |->
                    CASE sType = "ebs" ->
                            EBSVerdict(e, ItemOf(items, x), order)
                      [] sType = "ec2" ->
                            StoppedVerdict(e, ItemOf(items, x), order)
                      [] OTHER -> ""]
                first == Flagged(IdsOf(items), verdict, sType)
                list == IF MetricsOf(sType) = <<>> THEN <<>>
                        ELSE SelectSeq(IdsOf(items),
                                 LAMBDA x : Collected(sType, e,
                                                ItemOf(items, x), order))
            IN  /\ found' = first
                /\ kept' = list
                /\ IF list = <<>>
                   THEN /\ scanOut' = Returned(items, first)
                        /\ scPc' = "returned"
                   ELSE /\ scPc' = "fetch"
                        /\ UNCHANGED scanOut
    /\ UNCHANGED <<sType, scanCfg, listOut, fetched>>
    /\ UNCHANGED <<scanVars, fetchVars, excludeVars, cmdVars>>

\* The next metric fetch of the scanner.  When the first fetch fails the
\* scanner logs a warning and returns what it has; a later fetch that fails
\* is replaced by an empty map.  After the last fetch the loop over the
\* collected identifiers appends the findings and Scan returns.
ScanFetch ==
    /\ scPc = "fetch"
    /\ LET k == Len(fetched) + 1
       IN  \E out \in FetchOutcomes(MetricsOf(sType)[k], kept) :
            LET fs == Append(fetched, out)
            IN  /\ fetched' = fs
                /\ IF out.err # None /\ k = 1
                   THEN /\ scanOut' = Returned(listOut.items, found)
                        /\ scPc' = "returned"
                        /\ UNCHANGED found
                   ELSE IF k < Len(MetricsOf(sType))
                   THEN UNCHANGED <<scanOut, scPc, found>>
                   ELSE /\ found' = found \o
                              Emitted(sType, scanCfg, listOut.items, kept,
                                      MapsOf(fs))
                        /\ scanOut' = Returned(listOut.items, found')
                        /\ scPc' = "returned"
    /\ UNCHANGED <<sType, scanCfg, listOut, kept>>
    /\ UNCHANGED <<scanVars, fetchVars, excludeVars, cmdVars>>

NextScanner == ScanList \/ ScanFetch

SpecScanner == InitScanner /\ [][NextScanner]_vars

(***************************************************************************)
(* The scan command, with one scanner standing for those ScanAll runs: a   *)
(* step builds the ScanConfig from the loaded configuration and starts the *)
(* scan, or is a step of the Scan of the scanner.                          *)
(***************************************************************************)
\* The exclude sections of the modelled configuration files.
FileExcludes ==
    [ResourceIDs : {<<>>, <<"r-1">>},
     Tags : {<<>>, <<<<"temporary">>>>, <<<<"temporary", "=", "yes">>>>}]

\* The command has loaded .awsspectre.yaml; the account holds the resources
\* the listing of the scanner will describe.
InitCommand ==
    /\ \E x \in FileExcludes : fileCfg = [Exclude |-> x]
    /\ cmdPc = "loaded"
    /\ sType \in ScannerTypes
    /\ scanCfg = [Exclude |-> [ResourceIDs |-> <<>>, Tags |-> <<>>],
                  NATGWLowTrafficGB |-> 0]
    /\ \/ listOut = [err |-> "AccessDenied", items |-> <<>>]
       \/ \E n \in 0..MaxListed : \E l \in Listings(sType, n) :
            listOut = [err |-> None, items |-> l]
    /\ scPc = "idle"
    /\ kept = <<>>
    /\ found = <<>>
    /\ fetched = <<>>
    /\ scanOut = [isNil |-> TRUE, ResourcesScanned |-> 0, Findings |-> <<>>,
                  err |-> None]
    /\ scanned = EmptyResult
    /\ minMonthlyCost = 0
    /\ anPc = "idle"
    /\ analysis = [isNil |-> TRUE]
    /\ ScanIdle
    /\ FetchIdle
    /\ ExcludeIdle

\* runScan builds scanCfg and hands it to NewMultiRegionScanner; ScanAll
\* passes it to the Scan of every scanner.
RunScan ==
    /\ cmdPc = "loaded"
    /\ scanCfg' = ScanConfigOf(fileCfg)
    /\ cmdPc' = "scanning"
    /\ scPc' = "called"
    /\ UNCHANGED <<sType, listOut, kept, found, fetched, scanOut>>
    /\ UNCHANGED <<fileCfg, scanned, minMonthlyCost, anPc, analysis>>
    /\ UNCHANGED <<scanVars, fetchVars, excludeVars>>

NextCommand == RunScan \/ ScanList \/ ScanFetch

SpecCommand == InitCommand /\ [][NextCommand]_vars

(***************************************************************************)
(* One call of Analyze on the result of a scan.                            *)
(***************************************************************************)
\* The costs of the modelled findings and the minimum costs, in cents.
Wastes == {0, 50, 360}
MinCosts == {0, 50, 100}

\* The findings of the modelled scan results: the k-th of a list is about
\* resource k.
AnalyzedFindings(k) ==
    [ID : {"F"}, Severity : {"high", "low"}, ResourceType : {"ec2", "ebs"},
     ResourceID : {k}, EstimatedMonthlyWaste : Wastes]

\* The scan results with n findings.
ScanResults(n) ==
    {[Findings |-> fs, Errors |-> es, ResourcesScanned |-> rs,
      RegionsScanned |-> gs] :
        fs \in {x \in [1..n -> UNION {AnalyzedFindings(k) : k \in 1..n}] :
                   \A k \in 1..n : x[k].ResourceID = k},
        es \in {<<>>, <<"us-east-1/rds: AccessDenied">>},
        rs \in {n, n + 10},
        gs \in {1, 2}}

\* Analyze has been called on a scan result with any minimum cost.
InitAnalyze ==
    /\ \E n \in 0..MaxAnalyzed : scanned \in ScanResults(n)
    /\ minMonthlyCost \in MinCosts
    /\ anPc = "called"
    /\ analysis = [isNil |-> TRUE]
    /\ fileCfg = [Exclude |-> [ResourceIDs |-> <<>>, Tags |-> <<>>]]
    /\ cmdPc = "idle"
    /\ ScanIdle
    /\ FetchIdle
    /\ ExcludeIdle
    /\ UnitIdle

\* Analyze runs and returns.
AnalyzeReturn ==
    /\ anPc = "called"
    /\ analysis' = Analyze(scanned, minMonthlyCost)
    /\ anPc' = "returned"
    /\ UNCHANGED <<fileCfg, cmdPc, scanned, minMonthlyCost>>
    /\ UNCHANGED <<scanVars, fetchVars, excludeVars, unitVars>>

NextAnalyze == AnalyzeReturn

SpecAnalyze == InitAnalyze /\ [][NextAnalyze]_vars

(***************************************************************************)
(* Vocabulary of the properties.                                           *)
(***************************************************************************)
\* The multiset of the elements of a sequence.
SeqBag(s) == [x \in Range(s) |-> Cardinality({k \in DOMAIN s : s[k] = x})]

\* The sum of f over the finite set S.
RECURSIVE SumOver(_, _)
SumOver(S, f) ==
    IF S = {} THEN 0
    ELSE LET x == CHOOSE y \in S : TRUE IN f[x] + SumOver(S \ {x}, f)

\* The scanners of region i whose Scan returned an error / a result.
Failed(i) == {j \in Scs : scanRet[i][j] \notin {"ok", None}}
Succeeded(i) == {j \in Scs : scanRet[i][j] = "ok"}

\* scanRegion has returned for region i.
RegionReturned(i) == regErr[i] # None

\* The error strings region i owes to its failed scanners.
ScannerErrors(i) ==
    {regions[i] \o "/" \o scanners[j] \o ": " \o scanRet[i][j] : j \in Failed(i)}

\* The findings region i owes to its scanners that succeeded.
ScannerFindings(i) ==
    {[Region |-> regions[i], ResourceType |-> scanners[j], ResourceID |-> k] :
        <<j, k>> \in {p \in Succeeded(i) \X (1..MaxFindings) :
                        p[2] <= inventory[p[1]].findings}}

\* The resources the scanners of region i that succeeded have examined.
ScannerResources(i) ==
    SumOver(Succeeded(i), [j \in Scs |-> inventory[j].resources])

(***************************************************************************)
(* C1: when scanRegion returns, whatever subset F of its scanners failed,  *)
(* the region result holds exactly |F| errors, each "<region>/<type>:      *)
(* <cause>", ResourcesScanned is the sum over the scanners that succeeded, *)
(* Findings is the multiset union of their findings, and scanRegion's own  *)
(* error is nil.                                                           *)
(***************************************************************************)
C1_ScanRegionIsolatesFailures ==
    \A i \in Regs :
        RegionReturned(i) =>
            /\ regErr[i] = Nil
            /\ Len(result[i].Errors) = Cardinality(Failed(i))
            /\ Range(result[i].Errors) = ScannerErrors(i)
            /\ result[i].ResourcesScanned = ScannerResources(i)
            /\ SeqBag(result[i].Findings) = [f \in ScannerFindings(i) |-> 1]

\* A returned region in which two scanners succeeded and one failed.
C1_Witness ==
    \E i \in Regs :
        /\ RegionReturned(i)
        /\ Cardinality(Failed(i)) = 1
        /\ Cardinality(Succeeded(i)) >= 2
        /\ result[i].Findings # <<>>


(***************************************************************************)
(* C3: the result ScanAll returns is a function of the outcomes of the     *)
(* Scan calls alone: whatever the interleaving, its Findings are the       *)
(* multiset union of the findings of the scanners that succeeded, its      *)
(* Errors the multiset of the errors of those that failed, and its         *)
(* ResourcesScanned the sum over those that succeeded.  Only the order of  *)
(* the lists depends on the schedule.                                      *)
(***************************************************************************)
C3_MergeIsOrderIndependent ==
    saPc = "returned" =>
        /\ SeqBag(combined.Findings) =
               [f \in UNION {ScannerFindings(i) : i \in Regs} |-> 1]
        /\ SeqBag(combined.Errors) =
               [e \in UNION {ScannerErrors(i) : i \in Regs} |-> 1]
        /\ combined.ResourcesScanned =
               SumOver(Regs, [i \in Regs |-> ScannerResources(i)])

\* A returned run whose lists are not in region order: a finding of the
\* second region precedes one of the first, and so does an error.
C3_Witness ==
    /\ saPc = "returned"
    /\ Len(regions) >= 2
    /\ \E a, b \in DOMAIN combined.Findings :
          /\ a < b
          /\ combined.Findings[a].Region = regions[2]
          /\ combined.Findings[b].Region = regions[1]
    /\ \E a, b \in DOMAIN combined.Errors :
          /\ a < b
          /\ combined.Errors[a] \in ScannerErrors(2)
          /\ combined.Errors[b] \in ScannerErrors(1)

(***************************************************************************)
(* C4: Findings, Errors and ResourcesScanned of an accumulator change only *)
(* in a step of the goroutine that holds the accumulator's mutex, and the  *)
(* step applies that goroutine's whole contribution; at most one goroutine *)
(* is in a critical section of a mutex, and the holder of a mutex is in    *)
(* its critical section, never in Scan or in scanRegion.                   *)
(***************************************************************************)
\* The merged fields of an accumulator.
Merged(r) == <<r.Findings, r.Errors, r.ResourcesScanned>>

MutexHeldOnlyInCriticalSection ==
    /\ \A i \in Regs :
          /\ \A j \in Scs : spc[i][j] = "cs" => muInner[i] = j
          /\ muInner[i] # 0 => spc[i][muInner[i]] = "cs"
    /\ \A i \in Regs : rpc[i] = "cs" => muOuter = i
    /\ muOuter # 0 => rpc[muOuter] = "cs"

WritesUnderMutex ==
    /\ \A i \in Regs :
          Merged(result'[i]) # Merged(result[i]) =>
              /\ muInner[i] # 0
              /\ spc[i][muInner[i]] = "cs"
              /\ spc'[i][muInner[i]] = "done"
              /\ result'[i] =
                     MergeScanner(result[i], i, muInner[i], scanRet[i][muInner[i]])
    /\ Merged(combined') # Merged(combined) =>
          /\ muOuter # 0
          /\ rpc[muOuter] = "cs"
          /\ rpc'[muOuter] = "done"
          /\ combined' = MergeRegion(combined, muOuter, result[muOuter], Nil)

\* C4: the mutexes are held only in critical sections, and every merge into
\* an accumulator is one whole contribution applied by the mutex's holder.
C4_MutexGuardsAccumulators ==
    [](MutexHeldOnlyInCriticalSection) /\ [][WritesUnderMutex]_vars

\* One scanner holds its region's mutex while a sibling's Scan is still in
\* progress, and a region holds ScanAll's mutex while another region runs.
C4_Witness ==
    /\ \E i \in Regs : \E j, k \in Scs :
          muInner[i] = j /\ spc[i][k] = "running" /\ scanRet[i][j] = "ok"
    /\ \E i, k \in Regs :
          muOuter = i /\ rpc[k] = "running" /\ result[i].Findings # <<>>

(***************************************************************************)
(* C5: scanRegion returns only when every scanner goroutine of the region  *)
(* is done, and ScanAll only when every region goroutine (hence every      *)
(* scanner goroutine) is done; after scanRegion returned, the region's     *)
(* accumulator is never written, and after ScanAll returned, neither is    *)
(* the combined one.                                                       *)
(***************************************************************************)
JoinedAtReturn ==
    /\ \A i \in Regs :
          RegionReturned(i) => \A j \in Scs : spc[i][j] = "done"
    /\ saPc = "returned" =>
          \A i \in Regs : rpc[i] = "done" /\ \A j \in Scs : spc[i][j] = "done"

FrozenAfterReturn ==
    /\ \A i \in Regs : RegionReturned(i) => result'[i] = result[i]
    /\ saPc = "returned" => combined' = combined

\* C5: a return happens only once every child is done, and the returned
\* accumulator is never written afterwards.
C5_ReturnIsABarrier == [](JoinedAtReturn) /\ [][FrozenAfterReturn]_vars

\* ScanAll has returned findings of two regions of several scanners each.
C5_Witness ==
    /\ saPc = "returned"
    /\ Len(regions) >= 2
    /\ Len(scanners) >= 2
    /\ \A i \in Regs : result[i].Findings # <<>>

(***************************************************************************)
(* C6: at every moment at most s.concurrency region goroutines are inside  *)
(* ScanAll's pool (running scanRegion or merging), whatever the number of  *)
(* regions.                                                                *)
(***************************************************************************)
C6_OuterLimitHolds ==
    /\ concurrency >= 1
    /\ Cardinality(OuterActive) <= concurrency

\* The default limit binds: 4 regions are in the pool and one is queued.
C6_Witness ==
    /\ concurrency = DefaultConcurrency
    /\ Cardinality({i \in Regs : rpc[i] = "running"}) = DefaultConcurrency
    /\ \E i \in Regs : rpc[i] = "pending"

(***************************************************************************)
(* C7: at every moment at most 10 scanner goroutines of one region are in  *)
(* that region's pool, so at most s.concurrency x 10 Scan calls are in     *)
(* flight in the whole run.                                                *)
(***************************************************************************)
\* The scanner goroutines of the run that are inside Scan.
ScansInFlight ==
    {p \in Regs \X Scs : spc[p[1]][p[2]] = "running"}

C7_InnerLimitHolds ==
    /\ \A i \in Regs : Cardinality(InnerActive(i)) <= InnerLimit
    /\ Cardinality(ScansInFlight) <= concurrency * InnerLimit

\* The limit binds: 10 Scan calls of one region are in flight, one is queued.
C7_Witness ==
    \E i \in Regs :
        /\ Cardinality({j \in Scs : spc[i][j] = "running"}) = InnerLimit
        /\ \E j \in Scs : spc[i][j] = "pending"

(***************************************************************************)
(* C8: if the scheduler is fair and every Scan call returns, every region  *)
(* and every scanner is eventually admitted and finishes, and ScanAll      *)
(* returns: the two nested pools never deadlock.                           *)
(***************************************************************************)
AllUnitsDone ==
    \A i \in Regs : rpc[i] = "done" /\ \A j \in Scs : spc[i][j] = "done"

\* C8: under fair scheduling every unit finishes and ScanAll returns.
C8_ScanAllTerminates == <>[](saPc = "returned" /\ AllUnitsDone)

\* ScanAll has returned from a run with more regions than its pool admits.
C8_Witness ==
    /\ saPc = "returned"
    /\ AllUnitsDone
    /\ Len(regions) > concurrency

(***************************************************************************)
(* C9: when the context is cancelled while ScanAll is in progress, ScanAll *)
(* returns a non-nil error indicating the cancellation, with the partial   *)
(* result.                                                                 *)
(***************************************************************************)
C9_CancellationReturnsError ==
    (saPc = "returned" /\ cancelled) => (ret.err # Nil /\ ret.result # Nil)

\* What the code does instead: a cancelled run that returned a nil error,
\* the cancellation recorded only as a scanner's error string.
C9_Witness ==
    /\ saPc = "returned"
    /\ cancelled
    /\ ret.err = Nil
    /\ \E i \in Regs, j \in Scs :
          /\ scanRet[i][j] = "context canceled"
          /\ FmtScannerErr(regions[i], scanners[j], "context canceled")
                \in Range(combined.Errors)

(***************************************************************************)
(* C10: every region and every scanner goes pending -> running -> (merge)  *)
(* -> done, each step once: it is started once, its Scan is never called   *)
(* again, and it is never skipped whatever its siblings did.  A scanner    *)
(* that failed is, for its parent, a finished unit that contributed no     *)
(* finding and exactly one error; scanRegion and ScanAll return nil        *)
(* errors, so the caller of ScanAll sees no failed unit.                   *)
(***************************************************************************)
UnitSteps ==
    {<<"pending", "running">>, <<"running", "cs">>, <<"cs", "done">>}

UnitsAdvanceOnce ==
    \A i \in Regs :
        /\ rpc'[i] # rpc[i] => <<rpc[i], rpc'[i]>> \in UnitSteps
        /\ \A j \in Scs :
              /\ spc'[i][j] # spc[i][j] => <<spc[i][j], spc'[i][j]>> \in UnitSteps
              /\ scanRet[i][j] # None => scanRet'[i][j] = scanRet[i][j]
              /\ scanRet'[i][j] # scanRet[i][j] =>
                    spc[i][j] = "running" /\ spc'[i][j] = "cs"

FailureIsCompletion ==
    saPc = "returned" =>
        /\ ret = [result |-> "combined", err |-> Nil]
        /\ \A i \in Regs :
              /\ rpc[i] = "done"
              /\ regErr[i] = Nil
              /\ \A j \in Scs :
                    /\ spc[i][j] = "done"
                    /\ scanRet[i][j] # None
                    /\ j \in Failed(i) =>
                          /\ Cardinality({k \in DOMAIN combined.Errors :
                                 combined.Errors[k] =
                                   regions[i] \o "/" \o scanners[j] \o ": "
                                              \o scanRet[i][j]}) = 1
                          /\ \A k \in DOMAIN combined.Findings :
                                ~ /\ combined.Findings[k].Region = regions[i]
                                  /\ combined.Findings[k].ResourceType = scanners[j]

\* C10: units only move forward, one step at a time, and a returned run
\* holds every failure as one error string, with nil errors upward.
C10_UnitsRunOnceFailuresAbsorbed ==
    [](FailureIsCompletion) /\ [][UnitsAdvanceOnce]_vars

\* ScanAll has returned from a run in which a scanner failed while a
\* sibling of the same region, started after it, succeeded.
C10_Witness ==
    /\ saPc = "returned"
    /\ \E i \in Regs : \E j, k \in Scs :
          /\ j < k
          /\ scanRet[i][j] = "AccessDenied"
          /\ scanRet[i][k] = "ok"
          /\ result[i].Findings # <<>>

(***************************************************************************)
(* C11: whenever ScanAll returns a result, its RegionsScanned is           *)
(* len(regions), the number of regions attempted, whatever failed in them; *)
(* RegionsScanned is written once, by ScanAll's own goroutine when every   *)
(* region has completed, and is 0 until then.                              *)
(***************************************************************************)
RegionsScannedIsAttempted ==
    IF saPc = "returned"
    THEN ret.result # Nil => combined.RegionsScanned = Len(regions)
    ELSE combined.RegionsScanned = 0

RegionsScannedWrittenAtReturn ==
    combined'.RegionsScanned # combined.RegionsScanned =>
        /\ saPc = "loop"
        /\ saPc' = "returned"
        /\ \A i \in Regs : rpc[i] = "done"

\* C11: RegionsScanned is 0 until ScanAll returns and len(regions) after.
C11_RegionsScannedIsAttempted ==
    [](RegionsScannedIsAttempted) /\ [][RegionsScannedWrittenAtReturn]_vars

\* ScanAll has returned from a run of several regions, in one of which
\* every scanner failed.
C11_Witness ==
    /\ saPc = "returned"
    /\ Len(regions) >= 2
    /\ combined.RegionsScanned = Len(regions)
    /\ \E i \in Regs : Succeeded(i) = {} /\ Failed(i) = Scs

(***************************************************************************)
(* C12: ScanAll on an empty region list starts no region and no scanner    *)
(* and returns, with a nil error, the result without findings and errors,  *)
(* ResourcesScanned = 0 and RegionsScanned = 0.                            *)
(***************************************************************************)
C12_EmptyRegionsEmptyResult ==
    Len(regions) = 0 =>
        /\ gNext = 1
        /\ rpc = <<>> /\ spc = <<>> /\ scanRet = <<>>
        /\ combined = EmptyResult
        /\ saPc = "returned" => ret = [result |-> "combined", err |-> Nil]

\* ScanAll has returned from a run without regions.
C12_Witness ==
    /\ Len(regions) = 0
    /\ saPc = "returned"
    /\ ret.err = Nil

(***************************************************************************)
(* C13: NewMultiRegionScanner yields a scanner for every configured        *)
(* concurrency c: its outer cap is 4 when c <= 0 and c when c > 0.         *)
(***************************************************************************)
C13_ConcurrencyDefaulted ==
    saPc # "idle" =>
        /\ configured <= 0 => concurrency = 4
        /\ configured > 0 => concurrency = configured

\* A scanner configured with a negative concurrency runs several regions
\* at once.
C13_Witness ==
    /\ configured < 0
    /\ concurrency = DefaultConcurrency
    /\ Cardinality(OuterActive) >= 2

(***************************************************************************)
(* Vocabulary of the properties of a metric fetch.                         *)
(***************************************************************************)
\* ceil(n / b) for b > 0.
Ceil(n, b) == (n + b - 1) \div b

\* The concatenation of a sequence of sequences.
RECURSIVE Concat(_)
Concat(ss) == IF ss = <<>> THEN <<>> ELSE Head(ss) \o Concat(Tail(ss))

\* The sum of a sequence of numbers.
RECURSIVE SeqSum(_)
SeqSum(s) == IF s = <<>> THEN 0 ELSE Head(s) + SeqSum(Tail(s))

\* The identifiers a call asked for, in the order of its queries.
Asked(call) == [q \in DOMAIN call.Queries |-> call.Queries[q].Value]

\* The answers to call k: <<resource, samples>> for every result with
\* samples that carries the label under which call k asked for the resource.
AnswersOf(k) ==
    UNION {{<<calls[k].Queries[q].Value, r.Values>> :
                q \in {x \in DOMAIN calls[k].Queries :
                          calls[k].Queries[x].Id = r.Id}} :
            r \in {y \in Range(responses[k].results) : y.Values # <<>>}}

\* The answers to the calls sent so far.
Answers == UNION {AnswersOf(k) : k \in DOMAIN responses}

\* v is the statistic `st` of the samples: their sum, or their sum divided
\* by their number.
IsStatistic(v, st, samples) ==
    /\ v.den > 0
    /\ IF st = "Sum"
       THEN v.num = SeqSum(samples) * v.den
       ELSE v.num * Len(samples) = SeqSum(samples) * v.den

\* fetchMetric is past its guard.
FetchStarted == fPc \in {"loop", "returned", "panicked"} /\ ids # <<>>

(***************************************************************************)
(* C14: a metric fetch of N identifiers in which no remote call fails      *)
(* issues exactly ceil(N/500) GetMetricData calls; the batches are         *)
(* contiguous slices of the input, in input order, of 1 to 500 queries     *)
(* each, and their concatenation is the input list.                        *)
(***************************************************************************)
C14_BatchesPartitionInput ==
    /\ FetchStarted =>
          /\ Concat(batches) = ids
          /\ \A b \in DOMAIN batches :
                /\ Len(batches[b]) >= 1
                /\ Len(batches[b]) <= 500
                /\ batches[b] = SubSeq(ids, 500 * (b - 1) + 1,
                                       500 * (b - 1) + Len(batches[b]))
    /\ Len(calls) <= Len(batches)
    /\ \A k \in DOMAIN calls : Asked(calls[k]) = batches[k]
    /\ (fPc = "returned" /\ fRet.err = Nil) =>
          Len(calls) = Ceil(Len(ids), 500)

\* A fetch of 1001 identifiers has returned after three calls.
C14_Witness ==
    /\ fPc = "returned"
    /\ fRet.err = Nil
    /\ Len(ids) = 2 * 500 + 1
    /\ Len(calls) = 3
    /\ Len(calls[3].Queries) = 1

(***************************************************************************)
(* C15: whatever the order of the results in a response and whichever      *)
(* results are missing, a value is stored under a resource identifier      *)
(* only for a result that carries the label under which the same call      *)
(* asked for that resource; every key of the returned map is an input      *)
(* identifier.                                                             *)
(***************************************************************************)
C15_ResultsAttributedByLabel ==
    /\ \A key \in DOMAIN results :
          /\ \E p \in DOMAIN ids : ids[p] = key
          /\ \E a \in Answers :
                a[1] = key /\ IsStatistic(results[key], stat, a[2])
    /\ (fPc = "returned" /\ ~fRet.isNil) =>
          /\ fRet.m = results
          /\ DOMAIN fRet.m \subseteq Range(ids)

\* Two batches were both answered under the label "m0", the first with its
\* results in reverse order, and the map holds the first resource of each.
C15_Witness ==
    /\ fPc = "returned"
    /\ Len(responses) >= 2
    /\ Len(responses[1].results) = 2
    /\ responses[1].results[2].Id = Str(<<"m", "0">>)
    /\ \E r \in Range(responses[2].results) : r.Id = Str(<<"m", "0">>)
    /\ {ids[1], ids[500 + 1]} \subseteq DOMAIN fRet.m

(***************************************************************************)
(* C16: if the remote call of a batch fails, the fetch stops at that       *)
(* batch: it issues no later call and returns an error and no map, not     *)
(* even the values of the batches that succeeded before.                   *)
(***************************************************************************)
FailureEndsFetch ==
    /\ \A k \in DOMAIN responses :
          responses[k].err # Nil =>
              /\ k = Len(calls)
              /\ fPc = "returned"
              /\ fRet.err # Nil
    /\ (fPc = "returned" /\ fRet.err # Nil) =>
          /\ fRet.isNil
          /\ fRet.m = <<>>
          /\ calls # <<>>
          /\ responses[Len(calls)].err # Nil

NoCallAfterReturn ==
    fPc = "returned" => (calls' = calls /\ fRet' = fRet)

\* C16: the failing call is the last one, and the fetch returns no map.
C16_FailureAbortsFetch ==
    [](FailureEndsFetch) /\ [][NoCallAfterReturn]_vars

\* The second of three batches failed after the first had yielded values.
C16_Witness ==
    /\ fPc = "returned"
    /\ fRet.err # Nil
    /\ Len(batches) = 3
    /\ Len(calls) = 2
    /\ results # <<>>

(***************************************************************************)
(* C17: in the map a fetch returns, a resource whose query was answered    *)
(* with a non-empty sample list has the sum of the samples (FetchSum) or   *)
(* their sum divided by their number (FetchAverage); a resource answered   *)
(* with an empty sample list, or not answered, has no key.                 *)
(***************************************************************************)
\* The query that asks for the resource at position p of the input: the
\* query at p's place in p's batch.
QueryOf(p) == calls[((p - 1) \div 500) + 1].Queries[((p - 1) % 500) + 1]

\* The non-empty sample lists returned under the label of that query.
SamplesOf(p) ==
    {r.Values : r \in {x \in Range(responses[((p - 1) \div 500) + 1].results) :
                          x.Id = QueryOf(p).Id /\ x.Values # <<>>}}

C17_SumAndAverage ==
    (fPc = "returned" /\ fRet.err = Nil /\ ids # <<>>) =>
        \A p \in DOMAIN ids :
            /\ QueryOf(p).Value = ids[p]
            /\ IF SamplesOf(p) # {}
               THEN /\ ids[p] \in DOMAIN fRet.m
                    /\ \A samples \in SamplesOf(p) :
                          IsStatistic(fRet.m[ids[p]], stat, samples)
               ELSE ids[p] \notin DOMAIN fRet.m

\* FetchAverage has returned 3/2 for a resource with the samples 1 and 2,
\* and no key for a resource answered with an empty sample list.
C17_Witness ==
    /\ fPc = "returned"
    /\ stat = "Average"
    /\ Len(ids) = 2
    /\ DOMAIN fRet.m = {ids[1]}
    /\ fRet.m[ids[1]] = [num |-> 3, den |-> 2]
    /\ \E r \in Range(responses[1].results) :
          r.Id = Str(<<"m", "1">>) /\ r.Values = <<>>

(***************************************************************************)
(* C18: a metric fetch of an empty identifier list issues no remote call   *)
(* and returns the nil map with a nil error, with or without a client.     *)
(***************************************************************************)
C18_EmptyIdsNoCall ==
    (ids = <<>> /\ fPc # "called") =>
        /\ fPc = "returned"
        /\ fRet = [isNil |-> TRUE, m |-> <<>>, err |-> Nil]
        /\ calls = <<>>

\* A fetcher without a client has returned from a fetch of no identifier.
C18_Witness ==
    /\ ids = <<>>
    /\ client = Nil
    /\ fPc = "returned"
    /\ fRet.err = Nil

(***************************************************************************)
(* C19: the time window of a fetch is computed once: every call carries    *)
(* the same StartTime and the same EndTime, lookbackDays days apart.       *)
(***************************************************************************)
C19_OneWindowPerFetch ==
    \A k \in DOMAIN calls :
        /\ calls[k].StartTime = calls[1].StartTime
        /\ calls[k].EndTime = calls[1].EndTime
        /\ calls[k].EndTime - calls[k].StartTime = lookbackDays * 24

\* Three calls have been sent and the clock has advanced since the fetch
\* read it.
C19_Witness ==
    /\ Len(calls) = 3
    /\ clock > now
    /\ calls[3].EndTime = now

(***************************************************************************)
(* C20: ShouldExclude(id, tags) is true exactly when id is in the          *)
(* identifier set, or tags is not nil and some predicate key is a key of   *)
(* tags with the predicate's value empty or equal to the tag's value; with *)
(* nil tags the identifier set decides alone, and the zero ExcludeConfig   *)
(* excludes nothing.                                                       *)
(***************************************************************************)
\* The identifier is in the identifier set.
IdListed == resourceID \in DOMAIN exclude.ResourceIDs

\* Some predicate is satisfied by the tag map.
SomePredicateHolds ==
    \E k \in DOMAIN exclude.Tags :
        /\ k \in DOMAIN tags.m
        /\ (exclude.Tags[k] = "" \/ exclude.Tags[k] = tags.m[k])

C20_ShouldExcludeSemantics ==
    exPc = "returned" =>
        /\ excluded <=> (IdListed \/ (~tags.isNil /\ SomePredicateHolds))
        /\ tags.isNil => (excluded <=> IdListed)
        /\ exclude = [ResourceIDs |-> <<>>, Tags |-> <<>>] => ~excluded

\* A resource that is not listed is excluded by a key-only predicate on a
\* tag with a value, while a second predicate does not match.
C20_Witness ==
    /\ exPc = "returned"
    /\ excluded
    /\ ~IdListed
    /\ exclude.Tags = [Environment |-> "production", temporary |-> ""]
    /\ tags.m = [Environment |-> "staging", temporary |-> "production"]

(***************************************************************************)
(* Vocabulary of the properties of a Scan call.                            *)
(***************************************************************************)
\* Scan has returned a result and a nil error.
ScanSucceeded == scPc = "returned" /\ scanOut.err = None

\* The scanner holds the tags of the resources it lists: every listing but
\* that of the Lambda functions returns them.
TagsKnown == sType # "lambda"

\* The ExcludeConfig of the call excludes the listed resource res.
ExcludedByConfig(res) ==
    \/ MapGet(scanCfg.Exclude.ResourceIDs, res.id, FALSE)
    \/ /\ TagsKnown
       /\ \E k \in DOMAIN scanCfg.Exclude.Tags :
            /\ k \in DOMAIN res.Tags
            /\ scanCfg.Exclude.Tags[k] \in {"", res.Tags[k]}

\* The finding IDs the returned result reports for the resource named id.
ReportedFor(id) ==
    {scanOut.Findings[k].ID :
        k \in {j \in DOMAIN scanOut.Findings :
                  scanOut.Findings[j].ResourceID = id}}

(***************************************************************************)
(* C21: a successful Scan of any scanner emits no finding for a resource   *)
(* that the ExcludeConfig excludes (its identifier is in the identifier    *)
(* set, or the scanner knows its tags and they satisfy a tag predicate),   *)
(* and its ResourcesScanned is the number of resources listed, excluded    *)
(* ones included.                                                          *)
(***************************************************************************)
C21_ExcludedNeverReported ==
    ScanSucceeded =>
        /\ \A k \in DOMAIN listOut.items :
              ExcludedByConfig(listOut.items[k]) =>
                  ReportedFor(listOut.items[k].id) = {}
        /\ scanOut.ResourcesScanned = Len(listOut.items)

\* What the code does instead: the EBS scanner reports a detached volume
\* whose tag matches a tag predicate of the ExcludeConfig, because it looks
\* only at the identifier set.
C21_Witness ==
    /\ ScanSucceeded
    /\ sType = "ebs"
    /\ \E k \in DOMAIN listOut.items :
          /\ ExcludedByConfig(listOut.items[k])
          /\ ~MapGet(scanCfg.Exclude.ResourceIDs, listOut.items[k].id, FALSE)
          /\ "DETACHED_EBS" \in ReportedFor(listOut.items[k].id)
    /\ scanOut.ResourcesScanned = Len(listOut.items)

(***************************************************************************)
(* C22: a sub-query result whose id is missing, is not "m<index>", or      *)
(* parses to an index outside 0 .. len(batch)-1 (a negative index too) is  *)
(* ignored: it adds no key to the result map and never makes the fetch     *)
(* panic or fail.                                                          *)
(***************************************************************************)
\* Result r of the response to call k carries no label of the call.
Unlabelled(k, r) ==
    \A q \in DOMAIN calls[k].Queries : calls[k].Queries[q].Id # r.Id

C22_RogueResultsIgnored ==
    /\ \A key \in DOMAIN results : \E a \in Answers : a[1] = key
    /\ client # Nil => fPc # "panicked"
    /\ (fPc = "returned" /\ fRet.err # Nil) =>
          (calls # <<>> /\ responses[Len(calls)].err # Nil)

\* What the code does instead: a fetcher with a client panicked on a result
\* named "m-1" that carries samples.
C22_Witness ==
    /\ fPc = "panicked"
    /\ client # Nil
    /\ responses # <<>>
    /\ \E r \in Range(responses[Len(responses)].results) :
          /\ Unlabelled(Len(responses), r)
          /\ r.Id = Str(<<"m", "-", "1">>)
          /\ r.Values # <<>>

\* Fetch k of the call succeeded and its map holds a value for id.
HasValue(k, id) ==
    /\ k <= Len(fetched)
    /\ fetched[k].err = None
    /\ id \in DOMAIN fetched[k].m

\* Fetch k of the call failed.
FetchFailedAt(k) == k <= Len(fetched) /\ fetched[k].err # None

(***************************************************************************)
(* C23: a scanner that reads the metric map takes a resource without a key *)
(* as one without data, not as one with the value 0: it reports zero       *)
(* activity (IDLE_LAMBDA, IDLE_NAT_GATEWAY, IDLE_RDS for zero connections) *)
(* only for a resource whose metric value is present.                      *)
(***************************************************************************)
C23_ZeroActivityNeedsData ==
    ScanSucceeded =>
        \A k \in DOMAIN scanOut.Findings :
            LET f == scanOut.Findings[k]
                x == f.ResourceID
            IN  /\ f.ID = "IDLE_LAMBDA" => HasValue(1, x)
                /\ f.ID = "IDLE_NAT_GATEWAY" => (HasValue(1, x) \/ HasValue(2, x))
                /\ (/\ f.ID = "IDLE_RDS"
                    /\ ~(HasValue(1, x) /\ fetched[1].m[x] < IdleCPUThreshold))
                       => HasValue(2, x)

\* What the code does instead: the fetch of the invocations succeeded with
\* no value for a function, and the Lambda scanner reports it as idle.
C23_Witness ==
    /\ ScanSucceeded
    /\ sType = "lambda"
    /\ fetched # <<>>
    /\ fetched[1].err = None
    /\ \E k \in DOMAIN scanOut.Findings :
          /\ scanOut.Findings[k].ID = "IDLE_LAMBDA"
          /\ scanOut.Findings[k].ResourceID \notin DOMAIN fetched[1].m

(***************************************************************************)
(* C24: when a metric fetch fails inside a scanner that degrades, Scan     *)
(* still returns a nil error with ResourcesScanned unchanged, and every    *)
(* finding it emits is one it would also have emitted had that fetch       *)
(* succeeded: a failed fetch only skips a heuristic, it causes no finding  *)
(* that the fetched data would have prevented.                             *)
(***************************************************************************)
\* The findings the first loop of the call appended.
FirstLoopFindings ==
    {f \in Range(scanOut.Findings) : f.ID \in {"DETACHED_EBS", "STOPPED_EC2"}}

\* The findings of the call had fetch k answered with the map mm, all else
\* as it was.
HadFetched(k, mm) ==
    LET fs == [fetched EXCEPT ![k] = [metric |-> @.metric, err |-> None,
                                      m |-> mm]]
    IN  IF Len(fs) < Len(MetricsOf(sType)) THEN FirstLoopFindings
        ELSE FirstLoopFindings \cup
             Range(Emitted(sType, scanCfg, listOut.items, kept, MapsOf(fs)))

C24_FailedFetchOnlySkips ==
    (scPc = "returned" /\ \E k \in DOMAIN fetched : FetchFailedAt(k)) =>
        /\ scanOut.err = None
        /\ ~scanOut.isNil
        /\ scanOut.ResourcesScanned = Len(listOut.items)
        /\ \A k \in DOMAIN fetched :
              FetchFailedAt(k) =>
                  IF k = 1 THEN Range(scanOut.Findings) = FirstLoopFindings
                  ELSE \A mm \in Maps(Range(kept), ValuesOf(fetched[k].metric)) :
                          Range(scanOut.Findings) \subseteq HadFetched(k, mm)

\* What the code does instead: the fetch of the connections of an RDS
\* instance failed, its CPU is not low, and the scanner reports it as idle,
\* which any fetched number of connections above zero would have prevented.
C24_Witness ==
    /\ ScanSucceeded
    /\ sType = "rds"
    /\ Len(fetched) = 3
    /\ FetchFailedAt(2)
    /\ \E k \in DOMAIN scanOut.Findings :
         LET x == scanOut.Findings[k].ResourceID
         IN  /\ scanOut.Findings[k].ID = "IDLE_RDS"
             /\ HasValue(1, x)
             /\ fetched[1].m[x] >= IdleCPUThreshold
             /\ \E mm \in Maps(Range(kept), ValuesOf("DatabaseConnections")) :
                    scanOut.Findings[k] \notin HadFetched(2, mm)

(***************************************************************************)
(* C25: the Errors of the final result tell "no waste found" from "could   *)
(* not check": when the Errors that ScanAll records for a scanner are      *)
(* empty, the scanner completed its checks, that is, neither its listing   *)
(* call nor any of its metric fetches failed.                              *)
(***************************************************************************)
\* What scanRegion appends to result.Errors after this Scan call in region
\* us-east-1, and ScanAll in turn to combined.Errors.
RecordedErrors ==
    IF scanOut.err # None
    THEN <<FmtScannerErr("us-east-1", sType, scanOut.err)>>
    ELSE <<>>

C25_EmptyErrorsMeansChecked ==
    (scPc = "returned" /\ RecordedErrors = <<>>) =>
        /\ listOut.err = None
        /\ \A k \in DOMAIN fetched : ~FetchFailedAt(k)

\* What the code does instead: the only fetch of the Lambda scanner failed,
\* Scan returned the listing count, no finding and a nil error, and nothing
\* is recorded in Errors.
C25_Witness ==
    /\ scPc = "returned"
    /\ sType = "lambda"
    /\ FetchFailedAt(1)
    /\ RecordedErrors = <<>>
    /\ scanOut.Findings = <<>>
    /\ scanOut.ResourcesScanned > 0

(***************************************************************************)
(* C26: the exclusions of the configuration file reach the scan: every     *)
(* identifier under exclude.resource_ids and every tag predicate under     *)
(* exclude.tags is carried by the Exclude of the ScanConfig the scan       *)
(* command passes on, so that the command reports no finding for a         *)
(* resource the configuration excludes.                                    *)
(***************************************************************************)
\* The configuration file excludes the listed resource res.
ExcludedByFile(res) ==
    \/ res.id \in Range(fileCfg.Exclude.ResourceIDs)
    \/ /\ TagsKnown
       /\ \E k \in DOMAIN ParseTags(fileCfg.Exclude.Tags) :
            /\ k \in DOMAIN res.Tags
            /\ ParseTags(fileCfg.Exclude.Tags)[k] \in {"", res.Tags[k]}

C26_FileExclusionsReachScan ==
    cmdPc = "scanning" =>
        /\ \A id \in Range(fileCfg.Exclude.ResourceIDs) :
              MapGet(scanCfg.Exclude.ResourceIDs, id, FALSE)
        /\ \A k \in DOMAIN ParseTags(fileCfg.Exclude.Tags) :
              /\ k \in DOMAIN scanCfg.Exclude.Tags
              /\ scanCfg.Exclude.Tags[k] = ParseTags(fileCfg.Exclude.Tags)[k]
        /\ ScanSucceeded =>
              \A k \in DOMAIN listOut.items :
                  ExcludedByFile(listOut.items[k]) =>
                      ReportedFor(listOut.items[k].id) = {}

\* What the code does instead: the file lists r-1 under exclude.resource_ids,
\* the ScanConfig of the scan has an empty Exclude, and the scan reports r-1.
C26_Witness ==
    /\ cmdPc = "scanning"
    /\ ScanSucceeded
    /\ "r-1" \in Range(fileCfg.Exclude.ResourceIDs)
    /\ DOMAIN scanCfg.Exclude.ResourceIDs = {}
    /\ ReportedFor("r-1") # {}

(***************************************************************************)
(* C27: while results are merged an accumulator only grows: in every step  *)
(* of scanRegion and of ScanAll its ResourcesScanned does not decrease and *)
(* its Findings and Errors are only appended to; when ScanAll returns,     *)
(* ResourcesScanned is the sum of the ResourcesScanned of the scanners     *)
(* that succeeded in the regions that succeeded.                           *)
(***************************************************************************)
\* Sequence a is the beginning of sequence b.
IsPrefix(a, b) == Len(a) <= Len(b) /\ SubSeq(b, 1, Len(a)) = a

\* Accumulator q is accumulator r with more merged into it.
Grown(r, q) ==
    /\ r.ResourcesScanned <= q.ResourcesScanned
    /\ IsPrefix(r.Findings, q.Findings)
    /\ IsPrefix(r.Errors, q.Errors)

AccumulatorsGrow ==
    /\ \A i \in DOMAIN result : Grown(result[i], result'[i])
    /\ Grown(combined, combined')

CountIsSumAtReturn ==
    saPc = "returned" =>
        combined.ResourcesScanned =
            SumOver({i \in Regs : regErr[i] = Nil},
                    [i \in Regs |-> ScannerResources(i)])

C27_AccumulatorsOnlyGrow ==
    [][AccumulatorsGrow]_vars /\ []CountIsSumAtReturn

\* ScanAll returned after two regions were merged, each with findings of
\* two scanners, and a failed scanner left an error.
C27_Witness ==
    /\ saPc = "returned"
    /\ Len(regions) >= 2
    /\ Len(combined.Findings) >= 2
    /\ combined.Errors # <<>>
    /\ combined.ResourcesScanned > 0
    /\ \E i \in Regs : Cardinality(Succeeded(i)) >= 2 /\ Len(result[i].Findings) >= 2

(***************************************************************************)
(* C28: for every region buildScanners returns the same 13 scanners, one   *)
(* for each of ec2, ebs, eip, snapshot, security_group, alb, nat_gateway,  *)
(* rds, lambda, kinesis, firehose, sqs and sns, and scanRegion runs every  *)
(* one of them.                                                            *)
(***************************************************************************)
C28_ThirteenScannersRun ==
    saPc # "idle" =>
        /\ Len(scanners) = 13
        /\ Range(scanners) =
              {"ec2", "ebs", "eip", "snapshot", "security_group", "alb",
               "nat_gateway", "rds", "lambda", "kinesis", "firehose", "sqs",
               "sns"}
        /\ saPc = "returned" =>
              \A i \in Regs, j \in Scs : scanRet[i][j] # None

\* What the code does instead: ScanAll returned after scanRegion ran the
\* scanners of the region, all of them, and they are nine: none for kinesis,
\* firehose, sqs or sns.
C28_Witness ==
    /\ saPc = "returned"
    /\ Len(regions) = 1
    /\ scanners = buildScanners(regions[1])
    /\ Len(scanners) < Len(TestedScanners)
    /\ Range(scanners) \cap {"kinesis", "firehose", "sqs", "sns"} = {}
    /\ \A j \in Scs : scanRet[1][j] = "ok"
    /\ combined.ResourcesScanned = Len(scanners)

(***************************************************************************)
(* C29: Analyze keeps exactly the findings whose EstimatedMonthlyWaste is  *)
(* at least MinMonthlyCost, in their original order (all of them, those    *)
(* of cost zero too, when MinMonthlyCost is 0); TotalFindings, the sum of  *)
(* the BySeverity counts and the sum of the ByResourceType counts are the  *)
(* number of kept findings; TotalResourcesScanned, RegionsScanned and      *)
(* Errors are those of the scan result.                                    *)
(***************************************************************************)
\* The positions of the findings of the scan result that cost at least the
\* minimum, and the p-th of them.
KeptAt ==
    {k \in DOMAIN scanned.Findings :
        scanned.Findings[k].EstimatedMonthlyWaste >= minMonthlyCost}
NthKept(p) ==
    CHOOSE k \in KeptAt : Cardinality({j \in KeptAt : j <= k}) = p

C29_AnalyzeFiltersAndCounts ==
    anPc = "returned" =>
        /\ Len(analysis.Findings) = Cardinality(KeptAt)
        /\ \A p \in DOMAIN analysis.Findings :
              analysis.Findings[p] = scanned.Findings[NthKept(p)]
        /\ minMonthlyCost = 0 => analysis.Findings = scanned.Findings
        /\ analysis.Summary.TotalFindings = Cardinality(KeptAt)
        /\ SumOver(DOMAIN analysis.Summary.BySeverity,
                   analysis.Summary.BySeverity) = Cardinality(KeptAt)
        /\ SumOver(DOMAIN analysis.Summary.ByResourceType,
                   analysis.Summary.ByResourceType) = Cardinality(KeptAt)
        /\ analysis.Summary.TotalResourcesScanned = scanned.ResourcesScanned
        /\ analysis.Summary.RegionsScanned = scanned.RegionsScanned
        /\ analysis.Errors = scanned.Errors

\* Analyze returned for a result with errors whose first finding costs less
\* than the minimum and whose second costs exactly the minimum: the second
\* alone is kept.
C29_Witness ==
    /\ anPc = "returned"
    /\ minMonthlyCost > 0
    /\ Len(scanned.Findings) = 2
    /\ scanned.Errors # <<>>
    /\ scanned.Findings[1].EstimatedMonthlyWaste < minMonthlyCost
    /\ scanned.Findings[2].EstimatedMonthlyWaste = minMonthlyCost
    /\ analysis.Findings = <<scanned.Findings[2]>>
    /\ analysis.Errors = scanned.Errors

(***************************************************************************)
(* C30: installing a progress callback is purely observational.  A step    *)
(* that installs, replaces or removes the callback changes nothing else;   *)
(* no step of ScanAll calls the callback; and whatever callback is         *)
(* installed when ScanAll returns, the merged result is the one the        *)
(* scanners' outcomes determine: the same multisets of findings and        *)
(* errors, the same ResourcesScanned and the same RegionsScanned.          *)
(***************************************************************************)
\* Everything ScanAll reads or writes: all the state but the callback.
scanState ==
    <<regions, scanners, concurrency, faults, inventory, cancelled, saPc,
      gNext, rpc, sNext, spc, scanRet, result, muInner, gerrInner, regErr,
      combined, muOuter, gerrOuter, ret, configured, notified>>

CallbackOnlyObserved ==
    /\ progressFn' # progressFn => UNCHANGED scanState
    /\ notified' = notified

MergedResultIgnoresCallback ==
    /\ progressFn \in ProgressFns
    /\ notified = 0
    /\ (saPc = "returned" /\ ret.result # Nil) =>
           /\ SeqBag(combined.Findings) =
                  [f \in UNION {ScannerFindings(i) : i \in Regs} |-> 1]
           /\ SeqBag(combined.Errors) =
                  [e \in UNION {ScannerErrors(i) : i \in Regs} |-> 1]
           /\ combined.ResourcesScanned =
                  SumOver(Regs, [i \in Regs |-> ScannerResources(i)])
           /\ combined.RegionsScanned = Len(regions)

\* C30: the callback is never called and never changes the merged result.
C30_ProgressFnIsObservational ==
    [][CallbackOnlyObserved]_vars /\ []MergedResultIgnoresCallback

\* ScanAll returned findings and an error with a callback installed midway.
C30_Witness ==
    /\ saPc = "returned"
    /\ progressFn = "count"
    /\ combined.Findings # <<>>
    /\ combined.Errors # <<>>
    /\ combined.RegionsScanned >= 2

====
